---- MODULE Spec2Model ----
(***************************************************************************)
(* PDFtoBPMN, pdf_to_context core: Content Router, Structure Preserver,    *)
(* OCR response parsing, IR Builder and Structure Analyzer.                *)
(*                                                                         *)
(* Numbers that are floats in the source are scaled to integers:           *)
(*   bbox_coverage         in percent        (0.3 -> 30, 0.5 -> 50)        *)
(*   confidence            in hundredths     (0.9 -> 90)                   *)
(*   font sizes            in whole points; the mean is kept as the pair   *)
(*                         (sum, count) and the factors 1.2 / 1.3 / 1.5    *)
(*                         are applied by cross-multiplication with 10.    *)
(* The documents of SizedProfiles put a font size exactly on a threshold:  *)
(* the mean is 10 there, and 10.0 * 1.2, 10.0 * 1.3 and 10.0 * 1.5 are     *)
(* 12.0, 13.0 and 15.0 in IEEE doubles, so the float comparisons of the    *)
(* source and the exact ones agree.  No other document of the model has a  *)
(* font size on a threshold.                                               *)
(***************************************************************************)
EXTENDS Integers, Sequences, FiniteSets, TLC

VARIABLES
    \* ---- ContentRouter (core/router.py)
    prioritize_accuracy,   \* ContentRouter.prioritize_accuracy
    meta,                  \* the PageMetadata of the last route_page call
    route,                 \* the RouteDecisionInfo it returned
    fitz_page,             \* the fitz page PageAnalyzer.analyze_page was given
    \* ---- StructurePreserver (core/structure_preserver.py)
    ocr_client,            \* TRUE iff StructurePreserver.ocr_client is set
    stats,                 \* StructurePreserver._stats
    sp_pc,                 \* position inside process_structure
    sp_blocks,             \* argument blocks
    sp_page,               \* argument page_num
    sp_i,                  \* index of the block the for loop is at
    sp_processed,          \* local processed_blocks
    sp_out,                \* the returned list
    sp_log,                \* recognition calls issued / returned, in order
    sp_stats0,             \* _stats when the current call was entered
    sp_history,            \* the block lists of the calls since the last reset
    \* ---- IRBuilder / StructureAnalyzer (ir/builder.py, ir/structure_analyzer.py)
    extracted,             \* extracted_data: one dict of block lists per page
    block_counter,         \* IRBuilder._block_counter
    ir,                    \* the IR returned by build_ir (blocks, relations)
    ir_pc,                 \* which step of the pipeline the IR has been through
    first_levels,          \* block types and metadata after the first heading pass
    \* ---- DocumentPipeline.process (pipeline.py)
    document,              \* per page: what NativeExtractor.extract_page does
    pr_data,               \* the local extracted_data of process
    pr_errors,             \* DocumentPipeline._stats["errors"]
    pr_builds,             \* how often process has called build_ir
    \* ---- OCRClient.ocr_image (extractors/ocr_client.py)
    max_retries,           \* OCRClient.max_retries
    oc_pc,                 \* position inside ocr_image
    oc_attempts,           \* the outcomes of the HTTP attempts made, in order
    oc_last_error,         \* local last_error
    oc_result              \* what ocr_image returned or raised

router_vars    == <<prioritize_accuracy, meta, route, fitz_page>>
preserver_vars == <<ocr_client, stats, sp_pc, sp_blocks, sp_page, sp_i,
                    sp_processed, sp_out, sp_log, sp_stats0, sp_history>>
ir_vars        == <<extracted, block_counter, ir, ir_pc, first_levels>>
process_vars   == <<document, pr_data, pr_errors, pr_builds>>
client_vars    == <<max_retries, oc_pc, oc_attempts, oc_last_error, oc_result>>
vars           == <<router_vars, preserver_vars, ir_vars, process_vars, client_vars>>

\* Python's None where an object, a string or a number is expected.  TLC compares
\* values of one kind only, so each kind has its own None.
None == [kind |-> "None"]
\* A str is the sequence of its characters ("" is <<>>); a formatted str such as
\* an id is the sequence of the parts it is formatted from.
NoneStr == "None"
NoneNum == 0 - 1
\* A raised exception, as the outcome of a call
Raised == [kind |-> "raised"]

(***************************************************************************)
(* Small helpers on sequences.                                             *)
(***************************************************************************)
Range(s) == {s[i] : i \in DOMAIN s}

RECURSIVE SeqSum(_)
SeqSum(s) == IF s = <<>> THEN 0 ELSE Head(s) + SeqSum(Tail(s))

RECURSIVE FlattenSeq(_)
FlattenSeq(ss) == IF ss = <<>> THEN <<>> ELSE Head(ss) \o FlattenSeq(Tail(ss))

\* All sequences over S of length 0..n
SeqsUpTo(S, n) == UNION {[1..k -> S] : k \in 0..n}

(***************************************************************************)
(*                            CONTENT ROUTER                               *)
(***************************************************************************)
\* Thresholds of ContentRouter; coverage thresholds in percent.
BBOX_COVERAGE_LOW == 30
BBOX_COVERAGE_HIGH == 50
TEXT_DENSITY_VERY_HIGH == 5000
MODE_TINY_MAX == 500
MODE_SMALL_MAX == 1000
MODE_BASE_MAX == 2500
MODE_LARGE_MAX == 5000

LayoutType == {"single_column", "multi_column", "complex", "newspaper", "unknown"}
OCRMode == {"Tiny", "Small", "Base", "Large", "Gundam"}
RouteDecision == {"native", "ocr", "hybrid"}

\* Values of PageMetadata the router is exercised with: every threshold, the
\* value just above it, and the density of the routing scenario.
Densities == {0, MODE_TINY_MAX, MODE_TINY_MAX + 1, MODE_SMALL_MAX, MODE_SMALL_MAX + 1,
              MODE_BASE_MAX, MODE_BASE_MAX + 1, 3000, MODE_LARGE_MAX, MODE_LARGE_MAX + 1}
Coverages == {0, 20, BBOX_COVERAGE_LOW, BBOX_COVERAGE_LOW + 1,
              BBOX_COVERAGE_HIGH, BBOX_COVERAGE_HIGH + 1, 100}
ImageCounts == {0, 1}
DrawingCounts == {0, 5, 6}

PageMetadata == [has_text_layer : BOOLEAN, text_density : Densities,
                 layout_type : LayoutType, image_count : ImageCounts,
                 drawing_count : DrawingCounts, bbox_coverage : Coverages]

\* A plausible slip: the accuracy branch left out.
select_ocr_mode_by_density_only(text_density, layout_type) ==
    IF layout_type = "newspaper" THEN "Gundam"
    ELSE IF text_density <= MODE_TINY_MAX THEN "Tiny"
    ELSE IF text_density <= MODE_SMALL_MAX THEN "Small"
    ELSE IF text_density <= MODE_BASE_MAX THEN "Base"
    ELSE IF text_density <= MODE_LARGE_MAX THEN "Large"
    ELSE "Gundam"

\* A plausible slip: the results of the Base and the Large bucket exchanged.
select_ocr_mode_swapped(text_density, layout_type) ==
    IF layout_type = "newspaper" THEN "Gundam"
    ELSE IF prioritize_accuracy
         THEN IF text_density <= MODE_SMALL_MAX THEN "Base"
              ELSE IF text_density <= MODE_BASE_MAX THEN "Large"
              ELSE IF text_density <= MODE_LARGE_MAX THEN "Base"
              ELSE "Gundam"
         ELSE IF text_density <= MODE_TINY_MAX THEN "Tiny"
              ELSE IF text_density <= MODE_SMALL_MAX THEN "Small"
              ELSE IF text_density <= MODE_BASE_MAX THEN "Large"
              ELSE IF text_density <= MODE_LARGE_MAX THEN "Base"
              ELSE "Gundam"

\* A plausible slip: the Base bucket reaching up to MODE_LARGE_MAX.
select_ocr_mode_wide_base(text_density, layout_type) ==
    IF layout_type = "newspaper" THEN "Gundam"
    ELSE IF prioritize_accuracy
         THEN IF text_density <= MODE_LARGE_MAX THEN "Base" ELSE "Gundam"
         ELSE IF text_density <= MODE_TINY_MAX THEN "Tiny"
              ELSE IF text_density <= MODE_SMALL_MAX THEN "Small"
              ELSE IF text_density <= MODE_LARGE_MAX THEN "Base"
              ELSE "Gundam"

\* ContentRouter._select_ocr_mode
select_ocr_mode(text_density, layout_type) ==
    IF layout_type = "newspaper" THEN "Gundam"
    ELSE IF prioritize_accuracy
         THEN IF text_density <= MODE_SMALL_MAX THEN "Base"
              ELSE IF text_density <= MODE_BASE_MAX THEN "Base"
              ELSE IF text_density <= MODE_LARGE_MAX THEN "Large"
              ELSE "Gundam"
         ELSE IF text_density <= MODE_TINY_MAX THEN "Tiny"
              ELSE IF text_density <= MODE_SMALL_MAX THEN "Small"
              ELSE IF text_density <= MODE_BASE_MAX THEN "Base"
              ELSE IF text_density <= MODE_LARGE_MAX THEN "Large"
              ELSE "Gundam"

RouteResult(decision, ocr_mode, reason) ==
    [decision |-> decision, ocr_mode |-> ocr_mode, reason |-> reason]

\* A plausible slip: rule 5 without the check of prioritize_accuracy.
apply_routing_rules_hybrid_always(m) ==
    IF ~m.has_text_layer
    THEN RouteResult("ocr", select_ocr_mode(m.text_density, m.layout_type), "no_text_layer")
    ELSE IF m.layout_type = "newspaper"
    THEN RouteResult("ocr", "Gundam", "newspaper")
    ELSE IF m.layout_type = "complex"
    THEN RouteResult("ocr", select_ocr_mode(m.text_density, m.layout_type), "complex")
    ELSE IF m.bbox_coverage > BBOX_COVERAGE_HIGH
    THEN RouteResult("ocr", select_ocr_mode(m.text_density, m.layout_type), "coverage")
    ELSE IF m.bbox_coverage > BBOX_COVERAGE_LOW
            /\ (m.image_count > 0 \/ m.drawing_count > 5)
    THEN RouteResult("hybrid", select_ocr_mode(m.text_density, m.layout_type), "hybrid")
    ELSE IF prioritize_accuracy /\ m.text_density > TEXT_DENSITY_VERY_HIGH
    THEN RouteResult("ocr", select_ocr_mode(m.text_density, m.layout_type), "density")
    ELSE RouteResult("native", NoneStr, "default")

\* ContentRouter._apply_routing_rules
apply_routing_rules(m) ==
    IF ~m.has_text_layer
    THEN RouteResult("ocr", select_ocr_mode(m.text_density, m.layout_type), "no_text_layer")
    ELSE IF m.layout_type = "newspaper"
    THEN RouteResult("ocr", "Gundam", "newspaper")
    ELSE IF m.layout_type = "complex"
    THEN RouteResult("ocr", select_ocr_mode(m.text_density, m.layout_type), "complex")
    ELSE IF m.bbox_coverage > BBOX_COVERAGE_HIGH
    THEN RouteResult("ocr", select_ocr_mode(m.text_density, m.layout_type), "coverage")
    ELSE IF m.bbox_coverage > BBOX_COVERAGE_LOW
            /\ (m.image_count > 0 \/ m.drawing_count > 5)
            /\ prioritize_accuracy
    THEN RouteResult("hybrid", select_ocr_mode(m.text_density, m.layout_type), "hybrid")
    ELSE IF prioritize_accuracy /\ m.text_density > TEXT_DENSITY_VERY_HIGH
    THEN RouteResult("ocr", select_ocr_mode(m.text_density, m.layout_type), "density")
    ELSE RouteResult("native", NoneStr, "default")

\* ContentRouter.route_page, called with the page's metadata
route_page ==
    /\ route = None
    /\ \E m \in PageMetadata :
          /\ meta' = m
          /\ route' = apply_routing_rules(m)
    /\ UNCHANGED <<prioritize_accuracy, fitz_page, preserver_vars, ir_vars, process_vars, client_vars>>

\* The caller has taken the RouteDecisionInfo; the router keeps nothing of it.
route_taken ==
    /\ route # None
    /\ meta' = None
    /\ route' = None
    /\ UNCHANGED <<prioritize_accuracy, fitz_page, preserver_vars, ir_vars, process_vars, client_vars>>

RouterInit(accs) ==
    /\ prioritize_accuracy \in accs
    /\ meta = None
    /\ route = None
    /\ fitz_page = None

(***************************************************************************)
(*                     DATA MODELS (models/data_models.py)                 *)
(***************************************************************************)
BBox(x0, y0, x1, y1) == [x0 |-> x0, y0 |-> y0, x1 |-> x1, y1 |-> y1]

\* dict.get(key, default) and dict[key] = value on an open metadata map
Get(m, k, d) == IF k \in DOMAIN m THEN m[k] ELSE d
Put(m, k, v) == [x \in DOMAIN m \cup {k} |-> IF x = k THEN v ELSE m[x]]
EmptyDict == [x \in {} |-> None]

\* TextBlock with its __post_init__: font_size > 14 types it heading
TextBlock(bbox, text, page_num, font_size, is_bold, metadata) ==
    [kind |-> "TextBlock", bbox |-> bbox, text |-> text, page_num |-> page_num,
     type |-> IF font_size # NoneNum /\ font_size # 0 /\ font_size > 14
              THEN "heading" ELSE "paragraph",
     font_name |-> NoneStr, font_size |-> font_size, is_bold |-> is_bold,
     is_italic |-> FALSE, metadata |-> metadata]

ImageBlock(bbox, image_data, format, page_num, needs_ocr, metadata) ==
    [kind |-> "ImageBlock", bbox |-> bbox, image_data |-> image_data,
     format |-> format, page_num |-> page_num, type |-> "image",
     width |-> NoneNum, height |-> NoneNum, xref |-> NoneNum,
     needs_ocr |-> needs_ocr, metadata |-> metadata]

DrawingBlock(bbox, drawing_data, page_num, image_data, needs_ocr, metadata) ==
    [kind |-> "DrawingBlock", bbox |-> bbox, drawing_data |-> drawing_data,
     page_num |-> page_num, type |-> "vector", image_data |-> image_data,
     needs_ocr |-> needs_ocr, metadata |-> metadata]

TableBlock(bbox, html, rows, cols, page_num, source, metadata) ==
    [kind |-> "TableBlock", bbox |-> bbox, html |-> html, rows |-> rows,
     cols |-> cols, page_num |-> page_num, type |-> "table", data |-> None,
     source |-> source, metadata |-> metadata]

OCRBlock(id, type, content, bbox, page_num, confidence, metadata) ==
    [kind |-> "OCRBlock", id |-> id, type |-> type, content |-> content,
     bbox |-> bbox, page_num |-> page_num, confidence |-> confidence,
     source |-> "ocr", metadata |-> metadata]

ContentType == {"text", "image", "vector", "table", "heading", "paragraph",
                "list", "figure", "unknown"}

(***************************************************************************)
(* Stable sort by a key, as Python's sorted(): insertion from the left,    *)
(* an element going after every element whose key is not greater.          *)
(***************************************************************************)
\* tuple comparison of (page, -y1, x0)
KeyLess(a, b) ==
    \/ a[1] < b[1]
    \/ a[1] = b[1] /\ a[2] < b[2]
    \/ a[1] = b[1] /\ a[2] = b[2] /\ a[3] < b[3]

KeyLeq(a, b) == ~KeyLess(b, a)

\* A slip in the sort: an element also overtakes the elements of its own key.
goes_before_or_level(x_key, y_key) == ~KeyLess(y_key, x_key)

\* sorted() is stable: an element overtakes only the elements of a greater key
goes_before(x_key, y_key) == KeyLess(x_key, y_key)

\* x and the elements of s are pairs <<key, item>>
RECURSIVE InsertByKey(_, _)
InsertByKey(x, s) ==
    IF s = <<>> THEN <<x>>
    ELSE IF goes_before(x[1], Head(s)[1]) THEN <<x>> \o s
    ELSE <<Head(s)>> \o InsertByKey(x, Tail(s))

RECURSIVE SortedFrom(_, _)
SortedFrom(acc, s) ==
    IF s = <<>> THEN acc
    ELSE SortedFrom(InsertByKey(Head(s), acc), Tail(s))

\* sorted(items, key=...): keys[i] is the key of items[i]
sorted(items, keys) ==
    LET pairs == SortedFrom(<<>>, [i \in DOMAIN items |-> <<keys[i], items[i]>>])
    IN  [i \in DOMAIN pairs |-> pairs[i][2]]

(***************************************************************************)
(*               OCR CLIENT: the parsed recognition result                 *)
(***************************************************************************)
MaxFrags == 2

RECURSIVE GCD(_, _)
GCD(a, b) == IF b = 0 THEN a ELSE GCD(b, a % b)

\* The float a / b as an exact fraction in lowest terms (b > 0, a >= 0).
Fraction(a, b) ==
    LET g == IF a = 0 THEN b ELSE GCD(a, b)
    IN  [num |-> a \div g, den |-> b \div g]

\* "blocks" entries of the service's JSON answer.  The second one has no id
\* and no metadata, and a type that is not a ContentType.
FragWithId ==
    [id |-> <<"ocr_block_0">>, type |-> "heading", content |-> <<"A">>,
     bbox |-> BBox(1, 1, 2, 2), confidence |-> 90,
     metadata |-> [label |-> "title"]]
FragNoId ==
    [type |-> "sub_title", content |-> <<"B">>,
     bbox |-> BBox(3, 3, 4, 4), confidence |-> 70]
Fragments == {FragWithId, FragNoId}

ServiceResponses ==
    {[blocks |-> fs, markdown |-> <<"m", "d">>] : fs \in SeqsUpTo(Fragments, MaxFrags)}

\* A plausible slip: the first fragment's confidence instead of the mean.
confidence_avg_first(confidences) ==
    IF confidences # <<>> THEN Fraction(confidences[1], 1) ELSE Fraction(100, 1)

\* OCRClient._parse_ocr_response: sum(confidences) / len(confidences), else 1.0
confidence_avg(confidences) ==
    IF confidences # <<>>
    THEN Fraction(SeqSum(confidences), Len(confidences))
    ELSE Fraction(100, 1)

\* OCRClient._parse_ocr_response
parse_ocr_response(response_data, page_num) ==
    LET markdown    == Get(response_data, "markdown", <<>>)
        blocks_data == Get(response_data, "blocks", <<>>)
        ocr_block(bd) ==
            LET type_str == Get(bd, "type", "paragraph")
                bbox_data == Get(bd, "bbox", EmptyDict)
            IN  OCRBlock(Get(bd, "id", <<>>),
                         IF type_str \in ContentType THEN type_str ELSE "paragraph",
                         Get(bd, "content", <<>>),
                         BBox(Get(bbox_data, "x0", 0), Get(bbox_data, "y0", 0),
                              Get(bbox_data, "x1", 0), Get(bbox_data, "y1", 0)),
                         page_num,
                         Get(bd, "confidence", 100),
                         Get(bd, "metadata", EmptyDict))
        ocr_blocks  == [i \in DOMAIN blocks_data |-> ocr_block(blocks_data[i])]
        confidences == [i \in DOMAIN blocks_data |-> Get(blocks_data[i], "confidence", 100)]
    IN  [markdown |-> markdown, blocks |-> ocr_blocks, page_id |-> page_num,
         mode |-> "Base", confidence_avg |-> confidence_avg(confidences)]

\* What OCRClient.ocr_figure gives its caller: an OCRResponse, or an exception
\* (Raised: retries used up, or a client error).
CallOutcomes(page_num) ==
    {Raised} \cup {parse_ocr_response(r, page_num) : r \in ServiceResponses}

(***************************************************************************)
(*              OCR CLIENT: ocr_image AND ITS RETRIES                      *)
(***************************************************************************)
MaxRetries == 3

\* How one HTTP attempt of ocr_image can end: the service answers 200 with
\* a body, the post times out, the connection fails, raise_for_status
\* raises for a 4xx or 5xx status, or anything else raises (response.json,
\* _parse_ocr_response)
AttemptOutcomes ==
    { [kind |-> "ok", status_code |-> 200], [kind |-> "Timeout", status_code |-> 0],
      [kind |-> "ConnectionError", status_code |-> 0],
      [kind |-> "Exception", status_code |-> 200] }
    \cup { [kind |-> "HTTPError", status_code |-> c] : c \in {400, 404, 499, 500, 503} }

\* The body of a 200 answer
OkResponse == [blocks |-> <<FragWithId>>, markdown |-> <<"m", "d">>]

\* Variant: every HTTP error is tried again
tried_again_any_status(outcome) ==
    outcome.kind \in {"Timeout", "ConnectionError", "Exception", "HTTPError"}

\* ocr_image, the except clauses that end in continue
tried_again(outcome) ==
    \/ outcome.kind \in {"Timeout", "ConnectionError", "Exception"}
    \/ outcome.kind = "HTTPError" /\ outcome.status_code >= 500

\* ocr_image, the value of last_error after a failed attempt
last_error_of(outcome) ==
    CASE outcome.kind = "Timeout" -> "Timeout"
      [] outcome.kind = "ConnectionError" -> "Connection error"
      [] outcome.kind = "HTTPError" -> "Server error"
      [] OTHER -> "Unexpected error"

\* ocr_image is called: last_error = None, the for loop begins
ocr_image_enter ==
    /\ oc_pc = "idle"
    /\ oc_pc' = "loop"
    /\ oc_attempts' = <<>>
    /\ oc_last_error' = NoneStr
    /\ oc_result' = None
    /\ UNCHANGED max_retries
    /\ UNCHANGED <<router_vars, preserver_vars, ir_vars, process_vars>>

\* One iteration of for attempt in range(self.max_retries)
ocr_image_attempt ==
    /\ oc_pc = "loop"
    /\ Len(oc_attempts) < max_retries
    /\ \E outcome \in AttemptOutcomes :
          /\ oc_attempts' = Append(oc_attempts, outcome)
          /\ IF outcome.kind = "ok"
             THEN /\ oc_pc' = "returned"
                  /\ oc_result' = parse_ocr_response(OkResponse, 0)
                  /\ UNCHANGED oc_last_error
             ELSE IF tried_again(outcome)
             THEN /\ oc_pc' = "loop"
                  /\ oc_last_error' = last_error_of(outcome)
                  /\ UNCHANGED oc_result
             ELSE /\ oc_pc' = "raised"
                  /\ oc_result' = [kind |-> "RuntimeError",
                                    message |-> "OCR request failed",
                                    last_error |-> NoneStr]
                  /\ UNCHANGED oc_last_error
    /\ UNCHANGED max_retries
    /\ UNCHANGED <<router_vars, preserver_vars, ir_vars, process_vars>>

\* The loop is over: raise RuntimeError("... failed after N attempts ...")
ocr_image_gives_up ==
    /\ oc_pc = "loop"
    /\ Len(oc_attempts) >= max_retries
    /\ oc_pc' = "raised"
    /\ oc_result' = [kind |-> "RuntimeError",
                      message |-> "OCR request failed after attempts",
                      last_error |-> oc_last_error]
    /\ UNCHANGED <<max_retries, oc_attempts, oc_last_error>>
    /\ UNCHANGED <<router_vars, preserver_vars, ir_vars, process_vars>>

ClientInit(retries) ==
    /\ max_retries \in retries
    /\ oc_pc = "idle"
    /\ oc_attempts = <<>>
    /\ oc_last_error = NoneStr
    /\ oc_result = None

(***************************************************************************)
(*                          STRUCTURE PRESERVER                            *)
(***************************************************************************)
MaxIn == 2

\* "\n".join(parts), folded from the left
RECURSIVE JoinFrom(_, _)
JoinFrom(acc, parts) ==
    IF parts = <<>> THEN acc
    ELSE JoinFrom(acc \o <<"\n">> \o Head(parts), Tail(parts))

join_newline(parts) == IF parts = <<>> THEN <<>> ELSE JoinFrom(Head(parts), Tail(parts))

\* {**a, **b}: the keys of b win
MergeDict(a, b) ==
    [k \in DOMAIN a \cup DOMAIN b |-> IF k \in DOMAIN b THEN b[k] ELSE a[k]]

\* A plausible slip: the merged block placed at the first fragment's bbox.
merged_ocr_block_fragment_bbox(image_block, page_num, ocr_response, addr) ==
    LET first_block == ocr_response.blocks[1]
    IN  OCRBlock(<<"ocr_image", page_num, addr>>,
                 first_block.type,
                 join_newline([i \in DOMAIN ocr_response.blocks |->
                                  ocr_response.blocks[i].content]),
                 first_block.bbox,
                 page_num,
                 ocr_response.confidence_avg,
                 MergeDict([source |-> "image_ocr",
                            original_format |-> image_block.format,
                            markdown |-> ocr_response.markdown],
                           first_block.metadata))

\* StructurePreserver._process_image_ocr, the OCRBlock it builds.  addr stands
\* for id(image_block): the identity of the placeholder object.
merged_ocr_block(image_block, page_num, ocr_response, addr) ==
    LET combined_content ==
            join_newline([i \in DOMAIN ocr_response.blocks |->
                             ocr_response.blocks[i].content])
        first_block == ocr_response.blocks[1]
    IN  OCRBlock(<<"ocr_image", page_num, addr>>,
                 first_block.type,
                 combined_content,
                 image_block.bbox,
                 page_num,
                 ocr_response.confidence_avg,
                 MergeDict([source |-> "image_ocr",
                            original_format |-> image_block.format,
                            markdown |-> ocr_response.markdown],
                           first_block.metadata))

\* StructurePreserver._process_image_ocr after the call to ocr_figure ended with
\* `outcome`: the except branch, the empty-result branch, the merged block.
process_image_ocr(image_block, page_num, outcome, addr) ==
    IF outcome = Raised THEN None
    ELSE IF outcome # None /\ outcome.blocks # <<>>
         THEN merged_ocr_block(image_block, page_num, outcome, addr)
         ELSE None

ZeroStats == [total_images |-> 0, total_drawings |-> 0, ocr_processed |-> 0,
              ocr_skipped |-> 0, ocr_errors |-> 0]

Bump(st, k) == [st EXCEPT ![k] = @ + 1]

\* Variant: a failed recognition is not counted
after_image_ocr_uncounted(processed, st, block, ocr_block) ==
    IF ocr_block # None
    THEN [processed |-> Append(processed, ocr_block), stats |-> Bump(st, "ocr_processed")]
    ELSE [processed |-> Append(processed, block), stats |-> st]

\* A plausible slip: a failed placeholder is counted but not kept.
after_image_ocr_drop(processed, st, block, ocr_block) ==
    IF ocr_block # None
    THEN [processed |-> Append(processed, ocr_block), stats |-> Bump(st, "ocr_processed")]
    ELSE [processed |-> processed, stats |-> Bump(st, "ocr_errors")]

\* StructurePreserver.process_structure, the branch on the result of
\* _process_image_ocr
after_image_ocr(processed, st, block, ocr_block) ==
    IF ocr_block # None
    THEN [processed |-> Append(processed, ocr_block), stats |-> Bump(st, "ocr_processed")]
    ELSE [processed |-> Append(processed, block), stats |-> Bump(st, "ocr_errors")]

\* StructurePreserver._get_position_key
get_position_key(block) == <<block.page_num, 0 - block.bbox.y1, block.bbox.x0>>

Pages == {0, 1}

\* The blocks the extraction collaborator hands over for page p.
TopBox == BBox(0, 8, 5, 10)
LowBox == BBox(0, 4, 5, 6)
LowRightBox == BBox(6, 4, 9, 6)
MidBox == BBox(0, 6, 5, 8)
BottomBox == BBox(0, 1, 5, 3)

PageBlocks(p) ==
    { TextBlock(TopBox, <<"t", "1">>, p, 10, FALSE, [block_idx |-> 0]),
      TextBlock(LowBox, <<"t", "2">>, p, 10, FALSE, [block_idx |-> 1]),
      ImageBlock(TopBox, "img1", "png", p, TRUE, [img_idx |-> 0]),
      ImageBlock(LowRightBox, "img2", "jpeg", p, TRUE, [img_idx |-> 1]),
      ImageBlock(LowBox, "img3", "png", p, FALSE, [img_idx |-> 2]),
      DrawingBlock(MidBox, [type |-> "line"], p, "rendered", TRUE, [draw_idx |-> 0]),
      DrawingBlock(LowRightBox, [type |-> "rect"], p, NoneStr, FALSE, [draw_idx |-> 1]),
      TableBlock(BottomBox, <<"<table/>">>, 1, 1, p, "native", [table_idx |-> 0]) }

\* A plausible slip: a drawing with needs_ocr taken through the image branch.
IsFlaggedGraphic(block) ==
    block.kind \in {"ImageBlock", "DrawingBlock"} /\ block.needs_ocr

\* A plausible slip: every raster image taken through the image branch.
IsAnyImage(block) == block.kind = "ImageBlock"

IsFlaggedImage(block) == block.kind = "ImageBlock" /\ block.needs_ocr

\* process_structure is entered: processed_blocks = []
process_structure_enter ==
    /\ UNCHANGED <<router_vars, ir_vars, process_vars, client_vars>>
    /\ sp_pc = "idle"
    /\ \E p \in Pages : \E blocks \in SeqsUpTo(PageBlocks(p), MaxIn) :
          /\ sp_blocks' = blocks
          /\ sp_page' = p
          /\ sp_history' = Append(sp_history, blocks)
    /\ sp_pc' = "loop"
    /\ sp_i' = 1
    /\ sp_processed' = <<>>
    /\ sp_out' = <<>>
    /\ sp_log' = <<>>
    /\ sp_stats0' = stats
    /\ UNCHANGED <<ocr_client, stats>>

\* The blocks of a page when the extraction hands over blocks without a
\* bounding box as well: bbox is None
UnplacedPageBlocks(p) ==
    PageBlocks(p) \cup
    { TextBlock(None, <<"t", "3">>, p, 10, FALSE, [block_idx |-> 2]),
      TableBlock(None, <<"<table/>">>, 1, 1, p, "native", [table_idx |-> 1]) }

\* process_structure is entered with the blocks of such a page
process_structure_enter_unplaced ==
    /\ UNCHANGED <<router_vars, ir_vars, process_vars, client_vars>>
    /\ sp_pc = "idle"
    /\ \E p \in Pages : \E blocks \in SeqsUpTo(UnplacedPageBlocks(p), MaxIn) :
          /\ sp_blocks' = blocks
          /\ sp_page' = p
          /\ sp_history' = Append(sp_history, blocks)
    /\ sp_pc' = "loop"
    /\ sp_i' = 1
    /\ sp_processed' = <<>>
    /\ sp_out' = <<>>
    /\ sp_log' = <<>>
    /\ sp_stats0' = stats
    /\ UNCHANGED <<ocr_client, stats>>

\* One iteration of the for loop on an ImageBlock with needs_ocr, up to the
\* call of ocr_client.ocr_figure (or to its end when there is no client).
process_structure_image ==
    /\ UNCHANGED <<router_vars, ir_vars, process_vars, client_vars>>
    /\ sp_pc = "loop"
    /\ sp_i <= Len(sp_blocks)
    /\ IsFlaggedImage(sp_blocks[sp_i])
    /\ LET st == Bump(stats, "total_images")
       IN  IF ~ocr_client
           THEN LET r == after_image_ocr(sp_processed, st, sp_blocks[sp_i], None)
                IN  /\ sp_processed' = r.processed
                    /\ stats' = r.stats
                    /\ sp_i' = sp_i + 1
                    /\ UNCHANGED <<sp_pc, sp_log>>
           ELSE /\ stats' = st
                /\ sp_pc' = "call"
                /\ sp_log' = Append(sp_log, [ev |-> "call", idx |-> sp_i])
                /\ UNCHANGED <<sp_processed, sp_i>>
    /\ UNCHANGED <<ocr_client, sp_blocks, sp_page, sp_out, sp_stats0, sp_history>>

\* ocr_figure returns or raises; the rest of the iteration
ocr_figure_ends ==
    /\ UNCHANGED <<router_vars, ir_vars, process_vars, client_vars>>
    /\ sp_pc = "call"
    /\ \E outcome \in CallOutcomes(sp_page) :
          LET ocr_block == process_image_ocr(sp_blocks[sp_i], sp_page, outcome, sp_i)
              r == after_image_ocr(sp_processed, stats, sp_blocks[sp_i], ocr_block)
          IN  /\ sp_processed' = r.processed
              /\ stats' = r.stats
              /\ sp_log' = Append(sp_log, [ev |-> "end", idx |-> sp_i,
                                           outcome |-> outcome])
    /\ sp_i' = sp_i + 1
    /\ sp_pc' = "loop"
    /\ UNCHANGED <<ocr_client, sp_blocks, sp_page, sp_out, sp_stats0, sp_history>>

\* One iteration on a DrawingBlock (continue) or on any other block (append)
process_structure_other ==
    /\ UNCHANGED <<router_vars, ir_vars, process_vars, client_vars>>
    /\ sp_pc = "loop"
    /\ sp_i <= Len(sp_blocks)
    /\ ~IsFlaggedImage(sp_blocks[sp_i])
    /\ sp_processed' = IF sp_blocks[sp_i].kind = "DrawingBlock"
                       THEN sp_processed
                       ELSE Append(sp_processed, sp_blocks[sp_i])
    /\ sp_i' = sp_i + 1
    /\ UNCHANGED <<ocr_client, stats, sp_pc, sp_blocks, sp_page, sp_out, sp_log, sp_stats0,
                   sp_history>>

\* After the loop: sorted(processed_blocks, key=_get_position_key), return.
\* A block without bbox makes the key function raise.
process_structure_return ==
    /\ UNCHANGED <<router_vars, ir_vars, process_vars, client_vars>>
    /\ sp_pc = "loop"
    /\ sp_i > Len(sp_blocks)
    /\ IF \E i \in DOMAIN sp_processed : sp_processed[i].bbox = None
       THEN /\ sp_pc' = "raised"
            /\ sp_out' = <<>>
       ELSE /\ sp_pc' = "done"
            /\ sp_out' = sorted(sp_processed,
                                [i \in DOMAIN sp_processed |->
                                    get_position_key(sp_processed[i])])
    /\ UNCHANGED <<ocr_client, stats, sp_blocks, sp_page, sp_i, sp_processed,
                   sp_log, sp_stats0, sp_history>>

\* StructurePreserver.reset_statistics, called between two pages: the caller
\* has taken the list that process_structure returned, whose locals are gone.
reset_statistics ==
    /\ UNCHANGED <<router_vars, ir_vars, process_vars, client_vars>>
    /\ sp_pc = "done"
    /\ stats' = ZeroStats
    /\ sp_pc' = "idle"
    /\ sp_blocks' = <<>>
    /\ sp_page' = 0
    /\ sp_i' = 1
    /\ sp_processed' = <<>>
    /\ sp_out' = <<>>
    /\ sp_log' = <<>>
    /\ sp_stats0' = ZeroStats
    /\ sp_history' = <<>>
    /\ UNCHANGED ocr_client

\* The blocks of the pages whose counters are followed over several calls
CountedBlocks(p) ==
    { TextBlock(TopBox, <<"t", "1">>, p, 10, FALSE, [block_idx |-> 0]),
      ImageBlock(TopBox, "img1", "png", p, TRUE, [img_idx |-> 0]),
      ImageBlock(LowBox, "img3", "png", p, FALSE, [img_idx |-> 2]),
      DrawingBlock(MidBox, [type |-> "line"], p, "rendered", TRUE, [draw_idx |-> 0]) }

\* What a recognition call ends with there: it raises, it returns a
\* response without fragments, it returns one fragment
CountedOutcomes(page_num) ==
    { Raised,
      parse_ocr_response([blocks |-> <<>>, markdown |-> <<"m", "d">>], page_num),
      parse_ocr_response([blocks |-> <<FragWithId>>, markdown |-> <<"m", "d">>],
                         page_num) }

\* _stats after the for loop of process_structure from block i on, when the
\* recognition call for block j ends with outcomes[j]
RECURSIVE stats_from(_, _, _, _, _)
stats_from(st, blocks, page_num, outcomes, i) ==
    IF i > Len(blocks) THEN st
    ELSE IF IsFlaggedImage(blocks[i])
    THEN LET ocr_block ==
                 IF ocr_client
                 THEN process_image_ocr(blocks[i], page_num, outcomes[i], i)
                 ELSE None
         IN  stats_from(after_image_ocr(<<>>, Bump(st, "total_images"),
                                        blocks[i], ocr_block).stats,
                        blocks, page_num, outcomes, i + 1)
    ELSE stats_from(st, blocks, page_num, outcomes, i + 1)

\* StructurePreserver.process_structure from call to return, as a caller
\* that keeps the preserver over several pages sees it: the counters have
\* moved and the locals are gone.
process_structure_call ==
    /\ UNCHANGED <<router_vars, ir_vars, process_vars, client_vars>>
    /\ sp_pc = "idle"
    /\ Len(sp_history) < MaxIn
    /\ \E blocks \in SeqsUpTo(CountedBlocks(0), MaxIn) :
          /\ Len(FlattenSeq(sp_history)) + Len(blocks) <= MaxIn
          /\ \E outcomes \in [DOMAIN blocks -> CountedOutcomes(0)] :
                stats' = stats_from(stats, blocks, 0, outcomes, 1)
          /\ sp_history' = Append(sp_history, blocks)
    /\ UNCHANGED <<ocr_client, sp_pc, sp_blocks, sp_page, sp_i, sp_processed,
                   sp_out, sp_log, sp_stats0>>

\* StructurePreserver.reset_statistics, called by such a caller
reset_statistics_call ==
    /\ UNCHANGED <<router_vars, ir_vars, process_vars, client_vars>>
    /\ sp_pc = "idle"
    /\ sp_history # <<>>
    /\ stats' = ZeroStats
    /\ sp_history' = <<>>
    /\ UNCHANGED <<ocr_client, sp_pc, sp_blocks, sp_page, sp_i, sp_processed,
                   sp_out, sp_log, sp_stats0>>

PreserverInit(clients) ==
    /\ ocr_client \in clients
    /\ stats = ZeroStats
    /\ sp_pc = "idle"
    /\ sp_blocks = <<>>
    /\ sp_page = 0
    /\ sp_i = 1
    /\ sp_processed = <<>>
    /\ sp_out = <<>>
    /\ sp_log = <<>>
    /\ sp_stats0 = ZeroStats
    /\ sp_history = <<>>

(***************************************************************************)
(*        PIPELINE PAGE LOOP (pipeline.py, extractors/hybrid_handler.py)   *)
(***************************************************************************)
MaxBlocks == 3
MaxPages == 2

\* The recognition service as the pipeline meets it: what ocr_figure gives for
\* an image depends on the image only.
ocr_figure(image_data, page_num) ==
    IF image_data = "img1"
    THEN parse_ocr_response([blocks |-> <<FragWithId, FragNoId>>,
                             markdown |-> <<"m", "d">>], page_num)
    ELSE Raised

\* StructurePreserver.process_structure, start to end, as the page loop calls
\* it.  id(image_block) is the position of the placeholder among the blocks.
process_structure(blocks, page_num) ==
    LET one(i) ==
            LET block == blocks[i]
            IN  IF IsFlaggedImage(block)
                THEN LET ocr_block ==
                             IF ocr_client
                             THEN process_image_ocr(block, page_num,
                                      ocr_figure(block.image_data, page_num), i)
                             ELSE None
                     IN  after_image_ocr(<<>>, ZeroStats, block, ocr_block).processed
                ELSE IF block.kind = "DrawingBlock" THEN <<>> ELSE <<block>>
        processed_blocks == FlattenSeq([i \in DOMAIN blocks |-> one(i)])
    IN  sorted(processed_blocks,
               [i \in DOMAIN processed_blocks |-> get_position_key(processed_blocks[i])])

\* DocumentPipeline._split_blocks_by_type
split_blocks_by_type(blocks) ==
    [text_blocks    |-> SelectSeq(blocks, LAMBDA b : b.kind = "TextBlock"),
     image_blocks   |-> SelectSeq(blocks, LAMBDA b : b.kind = "ImageBlock"),
     drawing_blocks |-> SelectSeq(blocks, LAMBDA b : b.kind = "DrawingBlock"),
     table_blocks   |-> SelectSeq(blocks, LAMBDA b : b.kind = "TableBlock"),
     ocr_blocks     |-> SelectSeq(blocks, LAMBDA b : b.kind = "OCRBlock")]

\* What NativeExtractor.extract_page can find on page p of a laid-out document
LayoutBlocks(p) ==
    { TextBlock(TopBox, <<"t", "1">>, p, 10, FALSE, [block_idx |-> 0]),
      TextBlock(LowBox, <<"t", "2">>, p, 10, FALSE, [block_idx |-> 1]),
      ImageBlock(MidBox, "img1", "png", p, TRUE, [img_idx |-> 0]),
      ImageBlock(LowRightBox, "img2", "jpeg", p, TRUE, [img_idx |-> 1]),
      DrawingBlock(MidBox, [type |-> "line"], p, "rendered", TRUE, [draw_idx |-> 0]),
      TableBlock(BottomBox, <<"<table/>">>, 1, 1, p, "native", [table_idx |-> 0]) }

InReadingOrder(blocks) ==
    \A i \in 1..(Len(blocks) - 1) :
        KeyLeq(get_position_key(blocks[i]), get_position_key(blocks[i + 1]))

\* The pages of at most n blocks the extractor can return for page p of a
\* laid-out document: every block once, the blocks in reading order.
LayoutPages(p, n) ==
    {blocks \in SeqsUpTo(LayoutBlocks(p), n) :
        /\ InReadingOrder(blocks)
        /\ \A i, j \in DOMAIN blocks : i # j => blocks[i] # blocks[j]}

\* The number of blocks the extractor has returned so far and that are still
\* in extracted_data, a merged block counting for its placeholder
NumExtracted ==
    SeqSum([i \in DOMAIN extracted |->
               Len(extracted[i].text_blocks) + Len(extracted[i].image_blocks)
               + Len(extracted[i].drawing_blocks) + Len(extracted[i].table_blocks)
               + Len(SelectSeq(extracted[i].ocr_blocks,
                               LAMBDA b : Get(b.metadata, "source", "") = "image_ocr"))])

\* One iteration of the page loop of process_to_ir on a page whose native
\* blocks are `blocks` (the extractor lists them in reading order).
page_loop_body(blocks, page_num) ==
    LET page_data == split_blocks_by_type(blocks)
    IN  IF ocr_client /\ page_data.image_blocks # <<>>
        THEN split_blocks_by_type(
                 process_structure(page_data.text_blocks \o page_data.image_blocks
                                   \o page_data.drawing_blocks \o page_data.table_blocks,
                                   page_num))
        ELSE page_data

\* DocumentPipeline.process_to_ir, one page of a laid-out document
extract_page ==
    /\ ir_pc = "extract"
    /\ Len(extracted) < MaxPages
    /\ LET page_num == Len(extracted)
       IN  \E blocks \in LayoutPages(page_num, MaxBlocks - NumExtracted) :
              extracted' = Append(extracted, page_loop_body(blocks, page_num))
    /\ UNCHANGED <<block_counter, ir, ir_pc, first_levels>>
    /\ UNCHANGED <<router_vars, preserver_vars, process_vars, client_vars>>

\* A table that was recognised rather than read from the text layer:
\* TableBlock.source is "native" | "ocr"
RecognizedTable(p) ==
    TableBlock(MidBox, <<"<table/>">>, 2, 2, p, "ocr", [table_idx |-> 1])

\* One page of extracted_data from an extraction that also recognises tables
extract_page_with_recognized_tables ==
    /\ ir_pc = "extract"
    /\ Len(extracted) < MaxPages
    /\ LET page_num == Len(extracted)
       IN  \E blocks \in SeqsUpTo(LayoutBlocks(page_num) \cup {RecognizedTable(page_num)},
                                  MaxBlocks - NumExtracted) :
              /\ InReadingOrder(blocks)
              /\ \A i, j \in DOMAIN blocks : i # j => blocks[i] # blocks[j]
              /\ extracted' = Append(extracted, page_loop_body(blocks, page_num))
    /\ UNCHANGED <<block_counter, ir, ir_pc, first_levels>>
    /\ UNCHANGED <<router_vars, preserver_vars, process_vars, client_vars>>

\* HybridHandler.process_page: the native lists, and in ocr_blocks the
\* fragments of every region whose recognition did not raise.  A region is an
\* image of the page.
hybrid_process_page ==
    /\ ir_pc = "extract"
    /\ ocr_client
    /\ Len(extracted) < MaxPages
    /\ LET page_num == Len(extracted)
       IN  \E blocks \in LayoutPages(page_num, MaxBlocks - NumExtracted) :
              LET native_result == split_blocks_by_type(blocks)
                  regions == native_result.image_blocks
                  region_blocks(i) ==
                      LET ocr_response == ocr_figure(regions[i].image_data, page_num)
                      IN  IF ocr_response = Raised THEN <<>> ELSE ocr_response.blocks
                  ocr_blocks == FlattenSeq([i \in DOMAIN regions |-> region_blocks(i)])
              IN  extracted' = Append(extracted,
                                      [native_result EXCEPT !.ocr_blocks = ocr_blocks])
    /\ UNCHANGED <<block_counter, ir, ir_pc, first_levels>>
    /\ UNCHANGED <<router_vars, preserver_vars, process_vars, client_vars>>

(***************************************************************************)
(*                       IR BUILDER (ir/builder.py)                        *)
(***************************************************************************)
\* str(uuid.uuid4())[:8]: a value the builder does not control.  The draws of
\* one build are taken equal, the least favourable case for the ids.
Uuids == {0, 1}

IRBlock(id, type, content, page, bbox, source, confidence, metadata) ==
    [id |-> id, type |-> type, content |-> content, page |-> page, bbox |-> bbox,
     source |-> source, confidence |-> confidence, metadata |-> metadata]

\* IRBlock.get_position_key
IRBlock_get_position_key(b) == <<b.page, 0 - b.bbox.y1, b.bbox.x0>>

\* IRBuilder._generate_id with _block_counter = counter before the call
generate_id(prefix, counter, short_uuid) == <<prefix, counter + 1, short_uuid>>

convert_text_block(text_block, counter, short_uuid) ==
    IRBlock(generate_id("text", counter, short_uuid),
            text_block.type, text_block.text, text_block.page_num + 1,
            text_block.bbox, "native", None,
            MergeDict([font_name |-> text_block.font_name,
                       font_size |-> text_block.font_size,
                       is_bold   |-> text_block.is_bold,
                       is_italic |-> text_block.is_italic],
                      text_block.metadata))

convert_image_block(image_block, counter, short_uuid) ==
    IRBlock(generate_id("image", counter, short_uuid),
            "image",
            <<"data:image/", image_block.format, ";base64,", "b64:", image_block.image_data>>,
            image_block.page_num + 1, image_block.bbox, "native", None,
            MergeDict([format |-> image_block.format, width |-> image_block.width,
                       height |-> image_block.height, xref |-> image_block.xref],
                      image_block.metadata))

convert_drawing_block(drawing_block, counter, short_uuid) ==
    IRBlock(generate_id("drawing", counter, short_uuid),
            "vector",
            <<"[vector graphics: ", Get(drawing_block.drawing_data, "type", "unknown"), "]">>,
            drawing_block.page_num + 1, drawing_block.bbox, "native", None,
            MergeDict([drawing_data |-> drawing_block.drawing_data],
                      drawing_block.metadata))

convert_table_block(table_block, counter, short_uuid) ==
    IRBlock(generate_id("table", counter, short_uuid),
            "table", table_block.html, table_block.page_num + 1, table_block.bbox,
            table_block.source, None,
            MergeDict([rows |-> table_block.rows, cols |-> table_block.cols,
                       data |-> table_block.data],
                      table_block.metadata))

\* An OCR block that has an id keeps it
convert_ocr_block(ocr_block, counter, short_uuid) ==
    IRBlock(IF ocr_block.id # <<>> THEN ocr_block.id
            ELSE generate_id("ocr", counter, short_uuid),
            ocr_block.type, ocr_block.content, ocr_block.page_num + 1,
            ocr_block.bbox, "ocr", ocr_block.confidence, ocr_block.metadata)

\* TRUE iff converting the block calls _generate_id
CallsGenerateId(block) == block.kind # "OCRBlock" \/ block.id = <<>>

convert_block(block, counter, short_uuid) ==
    CASE block.kind = "TextBlock"    -> convert_text_block(block, counter, short_uuid)
      [] block.kind = "ImageBlock"   -> convert_image_block(block, counter, short_uuid)
      [] block.kind = "DrawingBlock" -> convert_drawing_block(block, counter, short_uuid)
      [] block.kind = "TableBlock"   -> convert_table_block(block, counter, short_uuid)
      [] block.kind = "OCRBlock"     -> convert_ocr_block(block, counter, short_uuid)

\* The order in which build_ir walks the blocks: page by page, and on a page
\* text, image, drawing, table, ocr.
ConversionOrder(extracted_data) ==
    FlattenSeq([i \in DOMAIN extracted_data |->
                   extracted_data[i].text_blocks \o extracted_data[i].image_blocks
                   \o extracted_data[i].drawing_blocks \o extracted_data[i].table_blocks
                   \o extracted_data[i].ocr_blocks])

\* IRBuilder._build_relations
build_relations(blocks) ==
    LET sorted_blocks ==
            sorted(blocks, [i \in DOMAIN blocks |-> IRBlock_get_position_key(blocks[i])])
    IN  [i \in 1..(Len(sorted_blocks) - 1) |->
            [type |-> "reading_order",
             from_id |-> sorted_blocks[i].id,
             to_id |-> sorted_blocks[i + 1].id,
             metadata |-> [sequence |-> i - 1]]]

count_by_type(blocks) ==
    [t \in {blocks[i].type : i \in DOMAIN blocks} |->
        Cardinality({i \in DOMAIN blocks : blocks[i].type = t})]

\* IRBuilder.build_ir
build_ir ==
    /\ ir_pc = "extract"
    /\ LET source_blocks == ConversionOrder(extracted)
           calls_before(i) ==
               Cardinality({j \in 1..(i - 1) : CallsGenerateId(source_blocks[j])})
       IN  /\ \E short_uuid \in Uuids :
                 LET all_blocks ==
                         [i \in DOMAIN source_blocks |->
                             convert_block(source_blocks[i],
                                           block_counter + calls_before(i), short_uuid)]
                 IN  ir' = [blocks |-> all_blocks,
                            relations |-> build_relations(all_blocks),
                            processing_stats |->
                                [total_blocks |-> Len(all_blocks),
                                 native_blocks |->
                                     Cardinality({i \in DOMAIN all_blocks :
                                                     all_blocks[i].source = "native"}),
                                 ocr_blocks |->
                                     Cardinality({i \in DOMAIN all_blocks :
                                                     all_blocks[i].source = "ocr"}),
                                 blocks_by_type |-> count_by_type(all_blocks)]]
           /\ block_counter' = block_counter + calls_before(Len(source_blocks) + 1)
    /\ ir_pc' = "built"
    /\ UNCHANGED <<extracted, first_levels>>
    /\ UNCHANGED <<router_vars, preserver_vars, process_vars, client_vars>>

(***************************************************************************)
(*               STRUCTURE ANALYZER (ir/structure_analyzer.py)             *)
(*                                                                         *)
(* The regular expressions are matched on the characters of the text.  The *)
(* documents of the model are ASCII: the Cyrillic words and letter ranges  *)
(* of the patterns are written in transliteration, the bullet and the      *)
(* middle dot as the tokens "BULLET" and "MIDDOT".                         *)
(***************************************************************************)
MaxTexts == 4

IsDigit(c) == c \in {"0", "1", "2", "3", "4", "5", "6", "7", "8", "9"}
IsSpace(c) == c \in {" ", "\t", "\n", "\r"}
IsUpper(c) == c \in {"A", "B", "C", "D", "E", "F", "G", "H", "I", "J", "K", "L", "M",
                     "N", "O", "P", "Q", "R", "S", "T", "U", "V", "W", "X", "Y", "Z"}
IsLowerCyrillic(c) == c \in {"a_cyr", "b_cyr", "v_cyr"}
IsRoman(c) == c \in {"i", "v", "x", "l", "c", "d", "m"}

\* str.strip()
RECURSIVE lstrip(_)
lstrip(t) == IF t # <<>> /\ IsSpace(Head(t)) THEN lstrip(Tail(t)) ELSE t
RECURSIVE rstrip(_)
rstrip(t) ==
    IF t # <<>> /\ IsSpace(t[Len(t)]) THEN rstrip(SubSeq(t, 1, Len(t) - 1)) ELSE t
strip(t) == rstrip(lstrip(t))

\* The position after the longest run of digits / spaces / roman letters that
\* starts at position i (i itself when the run is empty)
RECURSIVE DigitsEnd(_, _)
DigitsEnd(t, i) == IF i <= Len(t) /\ IsDigit(t[i]) THEN DigitsEnd(t, i + 1) ELSE i
RECURSIVE SpacesEnd(_, _)
SpacesEnd(t, i) == IF i <= Len(t) /\ IsSpace(t[i]) THEN SpacesEnd(t, i + 1) ELSE i
RECURSIVE RomanEnd(_, _)
RomanEnd(t, i) == IF i <= Len(t) /\ IsRoman(t[i]) THEN RomanEnd(t, i + 1) ELSE i

CharAt(t, i, c) == i <= Len(t) /\ t[i] = c
SpaceAt(t, i) == i <= Len(t) /\ IsSpace(t[i])
StartsWith(t, w) == Len(t) >= Len(w) /\ SubSeq(t, 1, Len(w)) = w

\* re.match(r'^\d+\.', t): the position after the dot, 0 when there is no match
AfterNumberDot(t) ==
    LET j == DigitsEnd(t, 1)
    IN  IF j > 1 /\ CharAt(t, j, ".") THEN j + 1 ELSE 0
\* re.match(r'^\d+\.\d+', t): the position after the second number, 0 when none
AfterNumberDotNumber(t) ==
    LET k == AfterNumberDot(t)
    IN  IF k > 0 /\ DigitsEnd(t, k) > k THEN DigitsEnd(t, k) ELSE 0
\* re.match(r'^\d+\.\d+\.\d+', t)
MatchesThreeNumbers(t) ==
    LET m == AfterNumberDotNumber(t)
    IN  m > 0 /\ CharAt(t, m, ".") /\ DigitsEnd(t, m + 1) > m + 1

Glava == <<"G", "l", "a", "v", "a">>
Razdel == <<"R", "a", "z", "d", "e", "l">>
Prilozhenie == <<"P", "r", "i", "l", "o", "z", "h", "e", "n", "i", "e">>

\* HEADING_PATTERNS: TRUE iff one of the six patterns matches
MatchesHeadingPattern(t) ==
    \/ AfterNumberDot(t) > 0 /\ SpaceAt(t, AfterNumberDot(t))
    \/ AfterNumberDotNumber(t) > 0 /\ SpaceAt(t, AfterNumberDotNumber(t))
    \/ Len(t) >= 2 /\ IsUpper(t[1]) /\ \A i \in 2..Len(t) : IsUpper(t[i]) \/ IsSpace(t[i])
    \/ \E w \in {Glava, Razdel} :
          /\ StartsWith(t, w)
          /\ SpacesEnd(t, Len(w) + 1) > Len(w) + 1
          /\ DigitsEnd(t, SpacesEnd(t, Len(w) + 1)) > SpacesEnd(t, Len(w) + 1)
    \/ /\ StartsWith(t, Prilozhenie)
       /\ SpacesEnd(t, Len(Prilozhenie) + 1) > Len(Prilozhenie) + 1
       /\ LET i == SpacesEnd(t, Len(Prilozhenie) + 1)
          IN  i <= Len(t) /\ (IsUpper(t[i]) \/ IsDigit(t[i]))

\* LIST_PATTERNS: the index 1..4 of the first pattern that matches, 0 when none
FirstListPattern(t) ==
    IF t # <<>> /\ t[1] \in {"-", "BULLET", "MIDDOT"} /\ SpaceAt(t, 2) THEN 1
    ELSE IF DigitsEnd(t, 1) > 1 /\ CharAt(t, DigitsEnd(t, 1), ")")
            /\ SpaceAt(t, DigitsEnd(t, 1) + 1) THEN 2
    ELSE IF t # <<>> /\ IsLowerCyrillic(t[1]) /\ CharAt(t, 2, ")") /\ SpaceAt(t, 3) THEN 3
    ELSE IF RomanEnd(t, 1) > 1 /\ CharAt(t, RomanEnd(t, 1), ")")
            /\ SpaceAt(t, RomanEnd(t, 1) + 1) THEN 4
    ELSE 0

\* The mean font size of _identify_headings as the fraction sum / count: over
\* the blocks typed text or paragraph whose font_size is truthy, 12.0 if none.
FontSizes(blocks) ==
    SelectSeq([i \in DOMAIN blocks |->
                  IF blocks[i].type \in {"text", "paragraph"}
                  THEN Get(blocks[i].metadata, "font_size", NoneNum) ELSE NoneNum],
              LAMBDA f : f # NoneNum /\ f # 0)

avg_font_size(blocks) ==
    LET font_sizes == FontSizes(blocks)
    IN  IF font_sizes # <<>>
        THEN [sum |-> SeqSum(font_sizes), count |-> Len(font_sizes)]
        ELSE [sum |-> 12, count |-> 1]

\* font_size > avg_font_size * (tenths / 10)
LargerThan(font_size, avg, tenths) == font_size * avg.count * 10 > avg.sum * tenths

\* TRUE iff the loop of _identify_headings raises on this block: a font_size
\* that is present and None is compared with a float.
HeadingCandidate(block) == block.type \in {"text", "paragraph", "heading"}
RaisesOnBlock(block) ==
    /\ HeadingCandidate(block)
    /\ "font_size" \in DOMAIN block.metadata
    /\ block.metadata.font_size = NoneNum

\* One iteration of the loop of _identify_headings
identify_heading(block, avg) ==
    IF ~HeadingCandidate(block) THEN block
    ELSE
    LET text == strip(block.content)
        has_font == "font_size" \in DOMAIN block.metadata
        font_size == block.metadata.font_size
        is_bold == Get(block.metadata, "is_bold", FALSE)
        by_pattern == MatchesHeadingPattern(text)
        level1 == IF ~by_pattern THEN 1
                  ELSE IF MatchesThreeNumbers(text) THEN 3
                  ELSE IF AfterNumberDotNumber(text) > 0 THEN 2
                  ELSE 1
        by_font == has_font /\ LargerThan(font_size, avg, 12)
        level2 == IF ~by_font THEN level1
                  ELSE IF LargerThan(font_size, avg, 15) THEN 1
                  ELSE IF LargerThan(font_size, avg, 13) THEN 2
                  ELSE 3
        by_bold == is_bold /\ Len(text) < 100
        heading_level == IF by_bold /\ level2 > 2 THEN 2 ELSE level2
    IN  IF by_pattern \/ by_font \/ by_bold
        THEN [block EXCEPT !.type = "heading",
                           !.metadata = Put(Put(@, "heading_level", heading_level),
                                            "original_type", "heading")]
        ELSE block

\* StructureAnalyzer._identify_headings.  When an iteration raises, the blocks
\* before it have been reclassified in place and the others have not.
identify_headings(blocks) ==
    LET avg == avg_font_size(blocks)
        raising == {i \in DOMAIN blocks : RaisesOnBlock(blocks[i])}
        stop == IF raising = {} THEN Len(blocks) + 1
                ELSE CHOOSE i \in raising : \A j \in raising : i <= j
    IN  [raised |-> raising # {},
         blocks |-> [i \in DOMAIN blocks |->
                        IF i < stop THEN identify_heading(blocks[i], avg) ELSE blocks[i]]]

\* StructureAnalyzer._identify_lists
IsListItem(block) ==
    block.type \in {"text", "paragraph"} /\ FirstListPattern(strip(block.content)) > 0

\* A plausible slip: current_list_id is not reset where a list ends.
identify_lists_never_reset(blocks) ==
    [i \in DOMAIN blocks |->
        IF IsListItem(blocks[i])
        THEN [blocks[i] EXCEPT
                 !.type = "list",
                 !.metadata =
                     Put(Put(Put(@, "list_id", <<"list", 1>>),
                             "list_type",
                             IF FirstListPattern(strip(blocks[i].content)) = 2
                             THEN "ordered" ELSE "unordered"),
                         "original_type", "list_item")]
        ELSE blocks[i]]

\* A plausible slip: the marker cut off the content of a list item.
identify_lists_marker_cut(blocks) ==
    LET starts(i) == IsListItem(blocks[i]) /\ (i = 1 \/ ~IsListItem(blocks[i - 1]))
        list_id_counter(i) == Cardinality({j \in 1..i : starts(j)})
    IN  [i \in DOMAIN blocks |->
            IF IsListItem(blocks[i])
            THEN [blocks[i] EXCEPT
                     !.type = "list",
                     !.content = Tail(strip(@)),
                     !.metadata =
                         Put(Put(Put(@, "list_id", <<"list", list_id_counter(i)>>),
                                 "list_type",
                                 IF FirstListPattern(strip(blocks[i].content)) = 2
                                 THEN "ordered" ELSE "unordered"),
                             "original_type", "list_item")]
            ELSE blocks[i]]

identify_lists(blocks) ==
    LET starts(i) == IsListItem(blocks[i]) /\ (i = 1 \/ ~IsListItem(blocks[i - 1]))
        list_id_counter(i) == Cardinality({j \in 1..i : starts(j)})
    IN  [i \in DOMAIN blocks |->
            IF IsListItem(blocks[i])
            THEN [blocks[i] EXCEPT
                     !.type = "list",
                     !.metadata =
                         Put(Put(Put(@, "list_id", <<"list", list_id_counter(i)>>),
                                 "list_type",
                                 IF FirstListPattern(strip(blocks[i].content)) = 2
                                 THEN "ordered" ELSE "unordered"),
                             "original_type", "list_item")]
            ELSE blocks[i]]

\* A slip in the while condition: entries of the same level stay on the stack.
stays_below_strict(entry_level, level) == entry_level > level

\* _build_hierarchy, the condition under which the top of the stack is popped
stays_below(entry_level, level) == entry_level >= level

RECURSIVE pop_stack(_, _)
pop_stack(heading_stack, level) ==
    IF heading_stack # <<>> /\ stays_below(heading_stack[Len(heading_stack)][1], level)
    THEN pop_stack(SubSeq(heading_stack, 1, Len(heading_stack) - 1), level)
    ELSE heading_stack

\* Variant: the id of the outermost open heading
current_heading_outermost(heading_stack) == heading_stack[1][2]

\* _build_hierarchy, heading_stack[-1][1]: the id a non-heading block gets
current_heading(heading_stack) == heading_stack[Len(heading_stack)][2]

\* StructureAnalyzer._build_hierarchy from block i on, with the stack so far
RECURSIVE hierarchy_from(_, _, _)
hierarchy_from(blocks, i, heading_stack) ==
    IF i > Len(blocks) THEN blocks
    ELSE
    LET block == blocks[i]
    IN  IF block.type = "heading"
        THEN LET level == Get(block.metadata, "heading_level", 1)
                 popped == pop_stack(heading_stack, level)
                 with_parent ==
                     IF popped # <<>>
                     THEN [block EXCEPT !.metadata =
                              Put(@, "parent_heading", popped[Len(popped)][2])]
                     ELSE block
             IN  hierarchy_from([blocks EXCEPT ![i] = with_parent], i + 1,
                                Append(popped, <<level, block.id>>))
        ELSE IF heading_stack # <<>>
        THEN hierarchy_from(
                 [blocks EXCEPT ![i].metadata =
                     Put(@, "parent_heading", current_heading(heading_stack))],
                 i + 1, heading_stack)
        ELSE hierarchy_from(blocks, i + 1, heading_stack)

build_hierarchy(blocks) == hierarchy_from(blocks, 1, <<>>)

\* StructureAnalyzer._build_toc
build_toc(blocks) ==
    LET headings == SelectSeq(blocks, LAMBDA b : b.type = "heading")
    IN  [i \in DOMAIN headings |->
            [level |-> Get(headings[i].metadata, "heading_level", 1),
             text |-> strip(headings[i].content),
             block_id |-> headings[i].id,
             page |-> headings[i].page]]

\* StructureAnalyzer.analyze on the IR that build_ir returned
analyze ==
    /\ ir_pc = "built"
    /\ LET h == identify_headings(ir.blocks)
       IN  IF h.raised
           THEN /\ ir' = [ir EXCEPT !.blocks = h.blocks]
                /\ ir_pc' = "raised"
           ELSE LET blocks == build_hierarchy(identify_lists(h.blocks))
                IN  /\ ir' = [ir EXCEPT
                                 !.blocks = blocks,
                                 !.processing_stats = Put(@, "toc", build_toc(blocks))]
                    /\ ir_pc' = "analyzed"
    /\ UNCHANGED <<extracted, block_counter, first_levels>>
    /\ UNCHANGED <<router_vars, preserver_vars, process_vars, client_vars>>

\* _identify_headings run once more on the analyzed IR; first_levels keeps the
\* blocks as the first run left them.
identify_headings_again ==
    /\ ir_pc = "analyzed"
    /\ LET h == identify_headings(ir.blocks)
       IN  /\ ir' = [ir EXCEPT !.blocks = h.blocks]
           /\ ir_pc' = IF h.raised THEN "raised" ELSE "reclassified"
    /\ first_levels' = ir.blocks
    /\ UNCHANGED <<extracted, block_counter>>
    /\ UNCHANGED <<router_vars, preserver_vars, process_vars, client_vars>>

\* What NativeExtractor.extract_page can find on the page of a text document.
\* The blocks lie at one position, so that every order is a reading order.
TextProfiles(p) ==
    { TextBlock(TopBox, <<"1", ".", " ", "A">>, p, 10, FALSE, EmptyDict),
      TextBlock(TopBox, <<"1", ".", "1", " ", "A">>, p, 10, FALSE, EmptyDict),
      TextBlock(TopBox, <<"t", "e", "x", "t">>, p, 10, FALSE, EmptyDict),
      TextBlock(TopBox, <<"t", "e", "x", "t">>, p, 14, FALSE, EmptyDict),
      TextBlock(TopBox, <<"t", "e", "x", "t">>, p, 10, TRUE, EmptyDict),
      TextBlock(TopBox, <<"-", " ", "x">>, p, 10, FALSE, EmptyDict),
      TextBlock(TopBox, <<"t", "e", "x", "t">>, p, 16, FALSE, EmptyDict) }

TextPages(p, n) == SeqsUpTo(TextProfiles(p), n)

\* DocumentPipeline.process_to_ir, the page of a one-page text document
extract_text_page ==
    /\ ir_pc = "extract"
    /\ extracted = <<>>
    /\ \E blocks \in TextPages(0, MaxTexts) :
          extracted' = Append(extracted, page_loop_body(blocks, 0))
    /\ UNCHANGED <<block_counter, ir, ir_pc, first_levels>>
    /\ UNCHANGED <<router_vars, preserver_vars, process_vars, client_vars>>

\* Text blocks for which the extractor found no span with a size: font_size
\* is None.  Beside them a block of size 10 and one of size 14.
FontlessProfiles(p) ==
    { TextBlock(TopBox, <<"t", "e", "x", "t">>, p, NoneNum, FALSE, EmptyDict),
      TextBlock(TopBox, <<"1", ".", " ", "A">>, p, NoneNum, FALSE, EmptyDict),
      TextBlock(TopBox, <<"t", "e", "x", "t">>, p, 10, FALSE, EmptyDict),
      TextBlock(TopBox, <<"t", "e", "x", "t">>, p, 14, FALSE, EmptyDict) }

\* DocumentPipeline.process_to_ir, the page of a one-page document with such
\* blocks
extract_fontless_page ==
    /\ ir_pc = "extract"
    /\ extracted = <<>>
    /\ \E blocks \in SeqsUpTo(FontlessProfiles(0), MaxTexts) :
          extracted' = Append(extracted, page_loop_body(blocks, 0))
    /\ UNCHANGED <<block_counter, ir, ir_pc, first_levels>>
    /\ UNCHANGED <<router_vars, preserver_vars, process_vars, client_vars>>

\* Text blocks told apart by their size only.  TextBlock types a block of
\* more than 14 points as a heading, so it stays out of the mean: beside
\* blocks of 10 points the mean is 10, and beside one block of 7 and one of
\* 13 points it is 10 as well.
SizedProfiles(p) ==
    { TextBlock(TopBox, <<"t", "e", "x", "t">>, p, 7, FALSE, EmptyDict),
      TextBlock(TopBox, <<"t", "e", "x", "t">>, p, 10, FALSE, EmptyDict),
      TextBlock(TopBox, <<"t", "e", "x", "t">>, p, 13, FALSE, EmptyDict),
      TextBlock(TopBox, <<"t", "e", "x", "t">>, p, 15, FALSE, EmptyDict),
      TextBlock(TopBox, <<"t", "e", "x", "t">>, p, 16, FALSE, EmptyDict) }

\* DocumentPipeline.process_to_ir, the page of a one-page document with such
\* blocks
extract_sized_page ==
    /\ ir_pc = "extract"
    /\ extracted = <<>>
    /\ \E blocks \in SeqsUpTo(SizedProfiles(0), MaxTexts) :
          extracted' = Append(extracted, page_loop_body(blocks, 0))
    /\ UNCHANGED <<block_counter, ir, ir_pc, first_levels>>
    /\ UNCHANGED <<router_vars, preserver_vars, process_vars, client_vars>>

(***************************************************************************)
(*                     PAGE ANALYZER (core/analyzer.py)                    *)
(***************************************************************************)
\* Points between two columns
MULTI_COLUMN_GAP == 50
\* Tokens per character, in hundredths
TOKEN_ESTIMATE_RATIO == 25

MaxColumnRun == 8

\* page.get_text(): the text of the text blocks, a newline after each
get_text(p) ==
    LET text_blocks == SelectSeq(p.blocks, LAMBDA b : b.type = 0)
    IN  FlattenSeq([i \in DOMAIN text_blocks |-> text_blocks[i].text \o <<"\n">>])

\* int(char_count * TOKEN_ESTIMATE_RATIO)
estimate_text_density(p) ==
    LET text == strip(get_text(p))
    IN  IF text = <<>> THEN 0 ELSE (Len(text) * TOKEN_ESTIMATE_RATIO) \div 100

\* The for loop of _detect_columns over sorted_coords[1:]; a coordinate pair
\* is <<x0, x1>>
RECURSIVE columns_from(_, _, _)
columns_from(columns, current_col, rest) ==
    IF rest = <<>> THEN Append(columns, current_col)
    ELSE LET x0 == Head(rest)[1]
             x1 == Head(rest)[2]
         IN  IF x0 <= current_col[2] + MULTI_COLUMN_GAP
             THEN columns_from(columns,
                               <<current_col[1],
                                 IF current_col[2] >= x1 THEN current_col[2] ELSE x1>>,
                               Tail(rest))
             ELSE columns_from(Append(columns, current_col), <<x0, x1>>, Tail(rest))

detect_columns(x_coords) ==
    IF x_coords = <<>> THEN <<>>
    ELSE LET sorted_coords == sorted(x_coords,
                                     [i \in DOMAIN x_coords |-> <<x_coords[i][1], 0, 0>>])
         IN  columns_from(<<>>, Head(sorted_coords), Tail(sorted_coords))

\* A plausible slip: ten text blocks already count as many.
detect_layout_type_ten_is_many(p) ==
    LET text_blocks == SelectSeq(p.blocks, LAMBDA b : b.type = 0)
        placed == SelectSeq(text_blocks, LAMBDA b : b.bbox # None)
        x_coords == [i \in DOMAIN placed |-> <<placed[i].bbox.x0, placed[i].bbox.x1>>]
        columns == detect_columns(x_coords)
    IN  IF p.blocks = <<>> THEN "unknown"
        ELSE IF Len(text_blocks) < 2 THEN "single_column"
        ELSE IF x_coords = <<>> THEN "unknown"
        ELSE IF Len(columns) = 1 THEN "single_column"
        ELSE IF Len(columns) = 2 THEN "multi_column"
        ELSE IF Len(columns) >= 3
             THEN IF Len(text_blocks) >= 10 THEN "newspaper" ELSE "complex"
        ELSE "single_column"

\* A plausible slip: a page without blocks taken for a page of one column.
detect_layout_type_single_default(p) ==
    LET text_blocks == SelectSeq(p.blocks, LAMBDA b : b.type = 0)
        placed == SelectSeq(text_blocks, LAMBDA b : b.bbox # None)
        x_coords == [i \in DOMAIN placed |-> <<placed[i].bbox.x0, placed[i].bbox.x1>>]
        columns == detect_columns(x_coords)
    IN  IF Len(text_blocks) < 2 THEN "single_column"
        ELSE IF x_coords = <<>> THEN "unknown"
        ELSE IF Len(columns) = 1 THEN "single_column"
        ELSE IF Len(columns) = 2 THEN "multi_column"
        ELSE IF Len(columns) >= 3
             THEN IF Len(text_blocks) > 10 THEN "newspaper" ELSE "complex"
        ELSE "single_column"

\* PageAnalyzer.detect_layout_type
detect_layout_type(p) ==
    LET text_blocks == SelectSeq(p.blocks, LAMBDA b : b.type = 0)
        placed == SelectSeq(text_blocks, LAMBDA b : b.bbox # None)
        x_coords == [i \in DOMAIN placed |-> <<placed[i].bbox.x0, placed[i].bbox.x1>>]
        columns == detect_columns(x_coords)
    IN  IF p.blocks = <<>> THEN "unknown"
        ELSE IF Len(text_blocks) < 2 THEN "single_column"
        ELSE IF x_coords = <<>> THEN "unknown"
        ELSE IF Len(columns) = 1 THEN "single_column"
        ELSE IF Len(columns) = 2 THEN "multi_column"
        ELSE IF Len(columns) >= 3
             THEN IF Len(text_blocks) > 10 THEN "newspaper" ELSE "complex"
        ELSE "single_column"

\* PageAnalyzer.calculate_bbox_coverage, in percent.  get_image_bbox gives a
\* rectangle, nothing, or raises; a drawing has a rect or none.
calculate_bbox_coverage(p) ==
    LET page_area == p.rect.width * p.rect.height
        image_area(img) ==
            IF img.bbox = Raised \/ img.bbox = None THEN 0
            ELSE (img.bbox.x1 - img.bbox.x0) * (img.bbox.y1 - img.bbox.y0)
        drawing_area(drawing) ==
            IF drawing.rect = None THEN 0
            ELSE (drawing.rect.x1 - drawing.rect.x0) * (drawing.rect.y1 - drawing.rect.y0)
        graphic_area ==
            SeqSum([i \in DOMAIN p.images |-> image_area(p.images[i])])
            + SeqSum([i \in DOMAIN p.drawings |-> drawing_area(p.drawings[i])])
    IN  IF page_area = 0 THEN 0
        ELSE IF graphic_area >= page_area THEN 100
        ELSE (graphic_area * 100) \div page_area

\* The PageMetadata that analyze_page returns
page_metadata(p) ==
    [page_num |-> p.number, width |-> p.rect.width, height |-> p.rect.height,
     rotation |-> p.rotation,
     has_text_layer |-> strip(get_text(p)) # <<>>,
     text_density |-> estimate_text_density(p),
     layout_type |-> detect_layout_type(p),
     image_count |-> Len(p.images),
     drawing_count |-> Len(p.drawings),
     table_count |-> 0,
     bbox_coverage |-> calculate_bbox_coverage(p)]

\* Entries of page.get_text("dict")["blocks"]: text blocks (type 0) in a left,
\* a middle and a right column, one that reaches from the left column to
\* exactly MULTI_COLUMN_GAP before the middle one, one without a bbox, and an
\* image block (type 1).  The middle column starts one point further than
\* MULTI_COLUMN_GAP from the left one.
DictTextBlock(bbox) == [type |-> 0, bbox |-> bbox, text |-> <<"a", "b">>]
LeftText == DictTextBlock(BBox(0, 0, 100, 10))
BridgeText == DictTextBlock(BBox(100 + MULTI_COLUMN_GAP, 0, 180, 10))
MiddleText == DictTextBlock(BBox(100 + MULTI_COLUMN_GAP + 1, 0, 250, 10))
RightText == DictTextBlock(BBox(400, 0, 500, 10))
UnplacedText == DictTextBlock(None)
DictImageBlock == [type |-> 1, bbox |-> BBox(0, 20, 300, 100)]

Copies(n, x) == [i \in 1..n |-> x]

DictBlockLists ==
    { Copies(img, DictImageBlock) \o Copies(r, RightText) \o Copies(u, UnplacedText)
      \o Copies(b, BridgeText) \o Copies(m, MiddleText) \o Copies(l, LeftText) :
        img \in 0..1, r \in 0..1, u \in 0..2, b \in 0..1, m \in 0..2,
        l \in 0..MaxColumnRun }

\* The page rectangle with the images and drawings on it: none; an image on
\* half of the page; an image whose bbox lookup raises, one without a bbox,
\* an image on half of the page, a drawing without a rect and one over the
\* whole page; a page of no area.
PageGraphics ==
    { [rect |-> [width |-> 600, height |-> 100], images |-> <<>>, drawings |-> <<>>],
      [rect |-> [width |-> 600, height |-> 100],
       images |-> <<[bbox |-> BBox(0, 0, 300, 100)]>>, drawings |-> <<>>],
      [rect |-> [width |-> 600, height |-> 100],
       images |-> <<[bbox |-> Raised], [bbox |-> None], [bbox |-> BBox(0, 0, 300, 100)]>>,
       drawings |-> <<[rect |-> None], [rect |-> BBox(0, 0, 600, 100)]>>],
      [rect |-> [width |-> 0, height |-> 0], images |-> <<>>, drawings |-> <<>>] }

FitzPage(blocks, g) ==
    [number |-> 0, rotation |-> 0, rect |-> g.rect, blocks |-> blocks,
     images |-> g.images, drawings |-> g.drawings]

FitzPages == {FitzPage(blocks, g) : blocks \in DictBlockLists, g \in PageGraphics}

\* PageAnalyzer.analyze_page
analyze_page ==
    /\ fitz_page = None
    /\ \E p \in FitzPages :
          /\ fitz_page' = p
          /\ meta' = page_metadata(p)
    /\ UNCHANGED <<prioritize_accuracy, route, preserver_vars, ir_vars, process_vars, client_vars>>

\* The caller has taken the PageMetadata; the analyzer keeps no state.
metadata_taken ==
    /\ fitz_page # None
    /\ fitz_page' = None
    /\ meta' = None
    /\ UNCHANGED <<prioritize_accuracy, route, preserver_vars, ir_vars, process_vars, client_vars>>

\* PageAnalyzer.analyze_page on a page of the document the page loop is
\* working on; the pages of that document have no text.
analyze_document_page ==
    /\ ir_pc = "extract"
    /\ Len(extracted) < MaxPages
    /\ \E g \in PageGraphics :
       LET p == FitzPage(<<>>, g) IN
          /\ fitz_page' = p
          /\ meta' = page_metadata(p)
    /\ UNCHANGED <<prioritize_accuracy, route, preserver_vars, ir_vars, process_vars, client_vars>>

(***************************************************************************)
(*        DOCUMENT PIPELINE: process AND process_to_ir (pipeline.py)       *)
(***************************************************************************)
\* What NativeExtractor.extract_page can return for page p of a document
\* handed to both entry points: a text block, a text block without bbox, a
\* raster image with needs_ocr, a vector drawing
EntryBlocks(p) ==
    << TextBlock(TopBox, <<"t", "1">>, p, 10, FALSE, [block_idx |-> 0]),
       TextBlock(None, <<"t", "3">>, p, 10, FALSE, [block_idx |-> 2]),
       ImageBlock(MidBox, "img1", "png", p, TRUE, [img_idx |-> 0]),
       DrawingBlock(LowBox, [type |-> "line"], p, NoneStr, FALSE, [draw_idx |-> 0]) >>

\* Page p as the extractor sees it: extract_page raises, or returns some of
\* these blocks
NativePages(p) ==
    { [raises |-> TRUE, blocks |-> <<>>] } \cup
    { [raises |-> FALSE,
       blocks |-> SelectSeq(EntryBlocks(p), LAMBDA b : b \in S)] :
         S \in { T \in SUBSET Range(EntryBlocks(p)) : Cardinality(T) <= MaxBlocks } }

\* The documents of n pages
RECURSIVE DocumentsOfLen(_)
DocumentsOfLen(n) ==
    IF n = 0 THEN { <<>> }
    ELSE { Append(d, pg) : d \in DocumentsOfLen(n - 1), pg \in NativePages(n - 1) }

Documents == UNION { DocumentsOfLen(n) : n \in 0..MaxPages }

\* The empty page data of the except branch of process
EmptyPageData ==
    [text_blocks |-> <<>>, image_blocks |-> <<>>, drawing_blocks |-> <<>>,
     table_blocks |-> <<>>, ocr_blocks |-> <<>>]

\* page_data["text_blocks"] + ["image_blocks"] + ["drawing_blocks"] + ["table_blocks"]
all_blocks_of(page_data) ==
    page_data.text_blocks \o page_data.image_blocks
    \o page_data.drawing_blocks \o page_data.table_blocks

\* process_structure raises on these blocks: the sort calls
\* _get_position_key on a kept block that has no bbox
sort_raises(blocks) ==
    \E i \in DOMAIN blocks :
        blocks[i].kind # "DrawingBlock" /\ blocks[i].bbox = None

\* process, the condition of the Structure Preserver step
process_applies_preserver(page_data) ==
    ocr_client /\ (page_data.image_blocks # <<>> \/ page_data.drawing_blocks # <<>>)

\* process_to_ir, the condition of the Structure Preserver step
process_to_ir_applies_preserver(page_data) ==
    ocr_client /\ page_data.image_blocks # <<>>

\* process, the try block of one iteration of the page loop
process_try(page, page_num) ==
    IF page.raises
    THEN [raised |-> TRUE, error |-> "extract_page", page_data |-> EmptyPageData]
    ELSE LET page_data == split_blocks_by_type(page.blocks)
         IN  IF process_applies_preserver(page_data)
             THEN IF sort_raises(all_blocks_of(page_data))
                  THEN [raised |-> TRUE, error |-> "process_structure",
                        page_data |-> EmptyPageData]
                  ELSE [raised |-> FALSE, error |-> NoneStr,
                        page_data |->
                            split_blocks_by_type(
                                process_structure(all_blocks_of(page_data), page_num))]
             ELSE [raised |-> FALSE, error |-> NoneStr, page_data |-> page_data]

\* Variant: the error is recorded and the page gets no entry
page_failed_without_entry(data, errors, page_num, error) ==
    [data |-> data,
     errors |-> Append(errors, [page |-> page_num + 1, error |-> error])]

\* process, the except branch of one iteration of the page loop
page_failed(data, errors, page_num, error) ==
    [data |-> Append(data, EmptyPageData),
     errors |-> Append(errors, [page |-> page_num + 1, error |-> error])]

\* process, one iteration of the page loop
process_page ==
    /\ pr_builds = 0
    /\ Len(pr_data) < Len(document)
    /\ LET page_num == Len(pr_data)
           r == process_try(document[page_num + 1], page_num)
       IN  IF r.raised
           THEN LET f == page_failed(pr_data, pr_errors, page_num, r.error)
                IN  /\ pr_data' = f.data
                    /\ pr_errors' = f.errors
           ELSE /\ pr_data' = Append(pr_data, r.page_data)
                /\ UNCHANGED pr_errors
    /\ UNCHANGED <<document, pr_builds>>
    /\ UNCHANGED <<router_vars, preserver_vars, ir_vars, client_vars>>

\* process, after the loop: ir_builder.build_ir(extracted_data, ...)
process_build_ir ==
    /\ pr_builds = 0
    /\ Len(pr_data) >= Len(document)
    /\ pr_builds' = pr_builds + 1
    /\ UNCHANGED <<document, pr_data, pr_errors>>
    /\ UNCHANGED <<router_vars, preserver_vars, ir_vars, client_vars>>

\* process_to_ir, one iteration of the page loop on the same document; an
\* exception leaves process_to_ir
process_to_ir_page ==
    /\ ir_pc = "extract"
    /\ Len(extracted) < Len(document)
    /\ LET page_num == Len(extracted)
           page == document[page_num + 1]
           page_data == split_blocks_by_type(page.blocks)
       IN  IF \/ page.raises
              \/ /\ process_to_ir_applies_preserver(page_data)
                 /\ sort_raises(all_blocks_of(page_data))
           THEN /\ ir_pc' = "raised"
                /\ UNCHANGED extracted
           ELSE /\ extracted' = Append(extracted, page_loop_body(page.blocks, page_num))
                /\ UNCHANGED ir_pc
    /\ UNCHANGED <<block_counter, ir, first_levels>>
    /\ UNCHANGED <<router_vars, preserver_vars, process_vars, client_vars>>

\* process_to_ir, after the loop: ir_builder.build_ir(extracted_data, ...)
process_to_ir_build_ir ==
    /\ ir_pc = "extract"
    /\ Len(extracted) >= Len(document)
    /\ ir_pc' = "handed"
    /\ UNCHANGED <<extracted, block_counter, ir, first_levels>>
    /\ UNCHANGED <<router_vars, preserver_vars, process_vars, client_vars>>

ProcessInit(docs) ==
    /\ document \in docs
    /\ pr_data = <<>>
    /\ pr_errors = <<>>
    /\ pr_builds = 0

(***************************************************************************)
(*                             SPECIFICATIONS                              *)
(***************************************************************************)
IRInit ==
    /\ extracted = <<>>
    /\ block_counter = 0
    /\ ir = None
    /\ ir_pc = "extract"
    /\ first_levels = <<>>

\* The Content Router, built with either value of prioritize_accuracy.
InitRouter == RouterInit(BOOLEAN) /\ PreserverInit({FALSE}) /\ IRInit /\ ProcessInit({<<>>})
    /\ ClientInit({3})
NextRouter == route_page \/ route_taken
SpecRouter == InitRouter /\ [][NextRouter]_vars

\* The Structure Preserver, built with or without an OCR client.
InitPreserver == RouterInit({TRUE}) /\ PreserverInit(BOOLEAN) /\ IRInit /\ ProcessInit({<<>>})
    /\ ClientInit({3})
NextPreserver ==
    \/ process_structure_enter
    \/ process_structure_image
    \/ ocr_figure_ends
    \/ process_structure_other
    \/ process_structure_return
    \/ reset_statistics
SpecPreserver == InitPreserver /\ [][NextPreserver]_vars

\* One call of ocr_image, for every max_retries up to MaxRetries
InitClient ==
    RouterInit({TRUE}) /\ PreserverInit({FALSE}) /\ IRInit /\ ProcessInit({<<>>})
    /\ ClientInit(0..MaxRetries)
NextClient == ocr_image_enter \/ ocr_image_attempt \/ ocr_image_gives_up
SpecClient == InitClient /\ [][NextClient]_vars

\* The same with the loop of ocr_image going on: it is sequential code, and
\* every attempt ends because the post carries timeout=self.timeout
SpecClientFair ==
    SpecClient /\ WF_vars(ocr_image_attempt) /\ WF_vars(ocr_image_gives_up)

\* One document given to process and to process_to_ir
InitEntry == RouterInit({TRUE}) /\ PreserverInit(BOOLEAN) /\ IRInit /\ ProcessInit(Documents)
    /\ ClientInit({3})
NextEntry ==
    \/ process_page
    \/ process_build_ir
    \/ process_to_ir_page
    \/ process_to_ir_build_ir
SpecEntry == InitEntry /\ [][NextEntry]_vars

\* One StructurePreserver called for page after page, with resets between
InitCounters == RouterInit({TRUE}) /\ PreserverInit(BOOLEAN) /\ IRInit /\ ProcessInit({<<>>})
    /\ ClientInit({3})
NextCounters == process_structure_call \/ reset_statistics_call
SpecCounters == InitCounters /\ [][NextCounters]_vars

\* The Structure Preserver on pages that may hold blocks without a bbox.
InitUnplaced == RouterInit({TRUE}) /\ PreserverInit(BOOLEAN) /\ IRInit /\ ProcessInit({<<>>})
    /\ ClientInit({3})
NextUnplaced ==
    \/ process_structure_enter_unplaced
    \/ process_structure_image
    \/ ocr_figure_ends
    \/ process_structure_other
    \/ process_structure_return
    \/ reset_statistics
SpecUnplaced == InitUnplaced /\ [][NextUnplaced]_vars

\* The same pipeline on a document with text blocks that have no font size.
InitFontless == RouterInit({TRUE}) /\ PreserverInit({FALSE}) /\ IRInit /\ ProcessInit({<<>>})
    /\ ClientInit({3})
NextFontless == extract_fontless_page \/ build_ir \/ analyze
SpecFontless == InitFontless /\ [][NextFontless]_vars

\* One page of text blocks of several sizes, built and analyzed
InitSizes == RouterInit({TRUE}) /\ PreserverInit({FALSE}) /\ IRInit /\ ProcessInit({<<>>})
    /\ ClientInit({3})
NextSizes == extract_sized_page \/ build_ir \/ analyze
SpecSizes == InitSizes /\ [][NextSizes]_vars

\* The Page Analyzer beside the page loop and build_ir, on one document.
InitDocument == RouterInit({TRUE}) /\ PreserverInit({FALSE}) /\ IRInit /\ ProcessInit({<<>>})
    /\ ClientInit({3})
NextDocument == analyze_document_page \/ extract_page \/ build_ir
SpecDocument == InitDocument /\ [][NextDocument]_vars

\* The IR Builder on extracted_data that may hold recognised tables.
InitTables == RouterInit({TRUE}) /\ PreserverInit(BOOLEAN) /\ IRInit /\ ProcessInit({<<>>})
    /\ ClientInit({3})
NextTables == extract_page_with_recognized_tables \/ build_ir
SpecTables == InitTables /\ [][NextTables]_vars

\* The Page Analyzer, called on one page after another.
InitPage == RouterInit({TRUE}) /\ PreserverInit({FALSE}) /\ IRInit /\ ProcessInit({<<>>})
    /\ ClientInit({3})
NextPage == analyze_page \/ metadata_taken
SpecPage == InitPage /\ [][NextPage]_vars

\* The IR Builder behind the page loop, with or without recognition.
InitBuild == RouterInit({TRUE}) /\ PreserverInit(BOOLEAN) /\ IRInit /\ ProcessInit({<<>>})
    /\ ClientInit({3})
NextBuild == extract_page \/ hybrid_process_page \/ build_ir
SpecBuild == InitBuild /\ [][NextBuild]_vars

\* The Structure Analyzer on the IR of a text document.
InitAnalyze == RouterInit({TRUE}) /\ PreserverInit({FALSE}) /\ IRInit /\ ProcessInit({<<>>})
    /\ ClientInit({3})
NextAnalyze == extract_text_page \/ build_ir \/ analyze \/ identify_headings_again
SpecAnalyze == InitAnalyze /\ [][NextAnalyze]_vars

(***************************************************************************)
(*                      CLAIMS ON THE CONTENT ROUTER                       *)
(***************************************************************************)
\* The page of the routing scenario has been routed with accuracy priority.
C3_Scenario ==
    /\ route # None
    /\ prioritize_accuracy
    /\ meta.has_text_layer
    /\ meta.layout_type = "complex"
    /\ meta.text_density = 3000
    /\ meta.bbox_coverage = 20

\* C3 as stated: hasTextLayer, Complex, density 3000, coverage 0.2 and accuracy
\* priority are routed to OCR with tier Base.
C3_ScenarioGivesBase ==
    C3_Scenario => route.decision = "ocr" /\ route.ocr_mode = "Base"

\* C3 amended: the same page is routed to OCR with tier Large (3000 lies above
\* MODE_BASE_MAX = 2500 and not above MODE_LARGE_MAX = 5000).
C3_ScenarioGivesLarge ==
    C3_Scenario => route.decision = "ocr" /\ route.ocr_mode = "Large"

C3_Witness == C3_Scenario /\ route.reason = "complex"

\* The rule table of the claim, rule k of 1..7 read on its own.
RuleMatches(k, m, accuracy) ==
    CASE k = 1 -> ~m.has_text_layer
      [] k = 2 -> m.layout_type = "newspaper"
      [] k = 3 -> m.layout_type = "complex"
      [] k = 4 -> m.bbox_coverage > 50
      [] k = 5 -> /\ m.bbox_coverage > 30
                  /\ (m.image_count > 0 \/ m.drawing_count > 5)
                  /\ accuracy
      [] k = 6 -> accuracy /\ m.text_density > 5000
      [] k = 7 -> TRUE

LowestRule(m, accuracy) ==
    CHOOSE k \in 1..7 :
        /\ RuleMatches(k, m, accuracy)
        /\ \A j \in 1..(k - 1) : ~RuleMatches(j, m, accuracy)

RuleDecision(k) == IF k = 5 THEN "hybrid" ELSE IF k = 7 THEN "native" ELSE "ocr"

EndEvents == {k \in DOMAIN sp_log : sp_log[k].ev = "end"}

Succeeded(outcome) == outcome # Raised /\ outcome.blocks # <<>>

\* The outcome of the recognition call for block i (a call was made for it)
OutcomeOf(i) ==
    sp_log[CHOOSE k \in EndEvents : sp_log[k].idx = i].outcome

Handled == 1..(sp_i - 1)

\* Flagged images whose recognition failed: no client, an exception, no fragment
FailedIdx ==
    {i \in Handled : /\ IsFlaggedImage(sp_blocks[i])
                     /\ (~ocr_client \/ ~Succeeded(OutcomeOf(i)))}

SucceededIdx ==
    {i \in Handled : /\ IsFlaggedImage(sp_blocks[i])
                     /\ ocr_client /\ Succeeded(OutcomeOf(i))}

Count(s, v) == Cardinality({k \in DOMAIN s : s[k] = v})

IsMergedFor(b, i) == b.kind = "OCRBlock" /\ b.id = <<"ocr_image", sp_page, i>>

\* C5: when recognition of flagged images fails, process_structure still
\* returns; each failed placeholder is in the output unchanged; ocr_errors has
\* grown by one per failed placeholder; and every other block is in the output
\* as it would be otherwise: drawings dropped, other blocks unchanged, one
\* merged block for each placeholder whose recognition succeeded.
C5_FailureKeepsPlaceholder ==
    /\ sp_pc # "raised"
    /\ sp_pc = "done" =>
        /\ stats.ocr_errors = sp_stats0.ocr_errors + Cardinality(FailedIdx)
        /\ \A i \in FailedIdx : \E k \in DOMAIN sp_out : sp_out[k] = sp_blocks[i]
        /\ Len(sp_out) =
              Cardinality({i \in DOMAIN sp_blocks : sp_blocks[i].kind # "DrawingBlock"})
        /\ \A v \in Range(sp_blocks) :
              v.kind # "DrawingBlock" =>
                 Count(sp_out, v) =
                    Cardinality({i \in DOMAIN sp_blocks :
                                    /\ sp_blocks[i] = v
                                    /\ i \notin SucceededIdx})
        /\ \A i \in SucceededIdx :
              Cardinality({k \in DOMAIN sp_out : IsMergedFor(sp_out[k], i)}) = 1

\* A call has returned in which one recognition raised and another block of
\* the page went through.
C5_Witness ==
    /\ sp_pc = "done"
    /\ ocr_client
    /\ Len(sp_out) = 2
    /\ \E i \in FailedIdx : OutcomeOf(i) = Raised
    /\ stats.ocr_errors = 1

\* "\n".join, folded from the right
RECURSIVE JoinRight(_)
JoinRight(parts) ==
    IF Len(parts) = 1 THEN parts[1]
    ELSE parts[1] \o <<"\n">> \o JoinRight(Tail(parts))

\* C6: the block that replaces a placeholder whose recognition succeeded has
\* the fragment texts joined by newline in response order as content, and the
\* placeholder's bbox.
C6_MergedContentAndBBox ==
    \A i \in SucceededIdx :
        \E k \in DOMAIN sp_processed :
            /\ IsMergedFor(sp_processed[k], i)
            /\ sp_processed[k].content =
                  JoinRight([j \in DOMAIN OutcomeOf(i).blocks |->
                                OutcomeOf(i).blocks[j].content])
            /\ sp_processed[k].bbox = sp_blocks[i].bbox

\* Fragments "A", "B" whose own boxes differ from the placeholder's have been
\* merged into "A\nB", and the merged block is in the returned list.
C6_Witness ==
    /\ sp_pc = "done"
    /\ \E i \in SucceededIdx : \E k \in DOMAIN sp_out :
          /\ IsMergedFor(sp_out[k], i)
          /\ sp_out[k].content = <<"A", "\n", "B">>
          /\ Len(OutcomeOf(i).blocks) = 2
          /\ \A j \in 1..2 : OutcomeOf(i).blocks[j].bbox # sp_blocks[i].bbox

\* C7: the confidence of a merged block is the arithmetic mean of the
\* confidences of the fragments of the recognition result.
C7_ConfidenceIsMean ==
    \A i \in SucceededIdx :
        \A k \in DOMAIN sp_processed :
            IsMergedFor(sp_processed[k], i) =>
                LET c == sp_processed[k].confidence
                    frs == OutcomeOf(i).blocks
                IN  /\ c.den > 0
                    /\ c.num * Len(frs) =
                          c.den * SeqSum([j \in DOMAIN frs |-> frs[j].confidence])

\* Fragments with confidences 0.9 and 0.7 have given a block of confidence 0.8.
C7_Witness ==
    \E i \in SucceededIdx : \E k \in DOMAIN sp_processed :
        /\ IsMergedFor(sp_processed[k], i)
        /\ [j \in DOMAIN OutcomeOf(i).blocks |-> OutcomeOf(i).blocks[j].confidence]
              = <<90, 70>>
        /\ sp_processed[k].confidence = [num |-> 80, den |-> 1]

(***************************************************************************)
(*                      IR BUILDER: THE BUILT IR                           *)
(***************************************************************************)
Built == ir_pc = "built"

\* The blocks of the IR in the order of a stable sort by (page, -y1, x0)
StableOrder ==
    sorted(ir.blocks, [i \in DOMAIN ir.blocks |-> IRBlock_get_position_key(ir.blocks[i])])

\* The ids met when the relations are followed from the first one
ChainNodes ==
    IF ir.relations = <<>> THEN <<>>
    ELSE <<ir.relations[1].from_id>>
         \o [i \in DOMAIN ir.relations |-> ir.relations[i].to_id]

\* C1: build_ir returns N-1 relations for N >= 1 blocks, all of type
\* reading_order; followed from_id -> to_id they are one linear chain (no id
\* has two successors or two predecessors) that visits every block exactly
\* once, in the order of a stable sort of the blocks by (page, -y1, x0).
C1_RelationsFormOneChain ==
    Built =>
        LET N == Len(ir.blocks)
        IN  /\ Len(ir.relations) = IF N >= 1 THEN N - 1 ELSE 0
            /\ \A i \in DOMAIN ir.relations :
                  /\ ir.relations[i].type = "reading_order"
                  /\ ir.relations[i].from_id = StableOrder[i].id
                  /\ ir.relations[i].to_id = StableOrder[i + 1].id
            /\ \A i, j \in DOMAIN ir.relations :
                  i # j => /\ ir.relations[i].from_id # ir.relations[j].from_id
                           /\ ir.relations[i].to_id # ir.relations[j].to_id
            /\ N >= 2 =>
                  \A b \in DOMAIN ir.blocks :
                      Cardinality({k \in DOMAIN ChainNodes :
                                      ChainNodes[k] = ir.blocks[b].id}) = 1

\* C2: no two blocks of the IR that build_ir returns have the same id.
C2_IdsAreUnique ==
    Built => \A i, j \in DOMAIN ir.blocks : i # j => ir.blocks[i].id # ir.blocks[j].id

\* C8: the block list of the IR that build_ir returns is in non-decreasing
\* order of the key (page, -y1, x0).
C8_BlocksInReadingOrder ==
    Built =>
        \A i \in 1..(Len(ir.blocks) - 1) :
            KeyLeq(IRBlock_get_position_key(ir.blocks[i]),
                   IRBlock_get_position_key(ir.blocks[i + 1]))

(***************************************************************************)
(*                   STRUCTURE ANALYZER: THE ANALYZED IR                   *)
(***************************************************************************)
IsHeading(b) == b.type = "heading"
LevelOf(b) == Get(b.metadata, "heading_level", 1)

\* C9: a second run of the heading detection on the analyzed IR gives every
\* heading the level the first run gave it and promotes no further block.
C9_SecondRunChangesNothing ==
    ir_pc = "reclassified" =>
        \A i \in DOMAIN ir.blocks :
            IF IsHeading(first_levels[i])
            THEN /\ IsHeading(ir.blocks[i])
                 /\ Get(ir.blocks[i].metadata, "heading_level", 0)
                        = Get(first_levels[i].metadata, "heading_level", 0)
            ELSE ~IsHeading(ir.blocks[i])

\* The headings before block i whose level is strictly smaller than its own
SmallerBefore(i) ==
    {j \in 1..(i - 1) : IsHeading(ir.blocks[j]) /\ LevelOf(ir.blocks[j]) < LevelOf(ir.blocks[i])}

\* C10: after hierarchy building the parent_heading of every heading is the id
\* of the nearest preceding heading of a strictly smaller level, and is absent
\* when no such heading precedes it.
C10_ParentIsNearestSmallerLevel ==
    ir_pc = "analyzed" =>
        \A i \in DOMAIN ir.blocks :
            IsHeading(ir.blocks[i]) =>
                IF SmallerBefore(i) = {}
                THEN "parent_heading" \notin DOMAIN ir.blocks[i].metadata
                ELSE LET j == CHOOSE j \in SmallerBefore(i) : \A k \in SmallerBefore(i) : k <= j
                     IN  /\ "parent_heading" \in DOMAIN ir.blocks[i].metadata
                         /\ ir.blocks[i].metadata.parent_heading = ir.blocks[j].id

\* Headings of levels 1, 2, 3, 2 in this order: the second is under the
\* first, the third under the second, the fourth under the first.
C10_Witness ==
    /\ ir_pc = "analyzed"
    /\ Len(ir.blocks) = 4
    /\ \A i \in 1..4 : IsHeading(ir.blocks[i])
    /\ [i \in 1..4 |-> LevelOf(ir.blocks[i])] = <<1, 2, 3, 2>>
    /\ "parent_heading" \notin DOMAIN ir.blocks[1].metadata
    /\ ir.blocks[2].metadata.parent_heading = ir.blocks[1].id
    /\ ir.blocks[3].metadata.parent_heading = ir.blocks[2].id
    /\ ir.blocks[4].metadata.parent_heading = ir.blocks[1].id

(***************************************************************************)
(*          STRUCTURE PRESERVER: ORDER AND CONTENT OF THE OUTPUT           *)
(***************************************************************************)
\* The key (page, -y1, x0) of a block of a page
OrderingKey(block) == <<block.page_num, 0 - block.bbox.y1, block.bbox.x0>>

\* The ways to arrange n positions
Arrangements(n) ==
    {f \in [1..n -> 1..n] : \A i, j \in 1..n : i # j => f[i] # f[j]}

\* C11: the list that process_structure returns is the stable sort of the
\* transformed blocks by (page, -y1, x0): keys never decrease along the
\* output, and the output is the transformed list rearranged so that blocks
\* of equal keys keep their relative order.
C11_OutputIsStableSort ==
    sp_pc = "done" =>
        /\ \A k \in 1..(Len(sp_out) - 1) :
              ~KeyLess(OrderingKey(sp_out[k + 1]), OrderingKey(sp_out[k]))
        /\ Len(sp_out) = Len(sp_processed)
        /\ \E f \in Arrangements(Len(sp_out)) :
              /\ \A k \in DOMAIN sp_out : sp_out[k] = sp_processed[f[k]]
              /\ \A k, l \in DOMAIN sp_out :
                    (k < l /\ OrderingKey(sp_out[k]) = OrderingKey(sp_out[l]))
                        => f[k] < f[l]

\* Two different blocks of one key came in and both are in the output, in
\* the order they came in
C11_Witness ==
    /\ sp_pc = "done"
    /\ \E k \in 1..(Len(sp_out) - 1) :
          /\ sp_out[k] # sp_out[k + 1]
          /\ OrderingKey(sp_out[k]) = OrderingKey(sp_out[k + 1])
          /\ sp_processed = sp_out

\* C12: a Text or Table block without a bounding box passes through
\* process_structure: once the call is over it has returned normally and the
\* block is in the returned list, as it came in.
C12_UnplacedBlockPassesThrough ==
    \A i \in DOMAIN sp_blocks :
        ( /\ sp_pc \in {"done", "raised"}
          /\ sp_blocks[i].kind \in {"TextBlock", "TableBlock"}
          /\ sp_blocks[i].bbox = None )
        => /\ sp_pc = "done"
           /\ \E k \in DOMAIN sp_out : sp_out[k] = sp_blocks[i]

(***************************************************************************)
(*                        PAGE ANALYZER: LAYOUT TYPE                       *)
(***************************************************************************)
IsUnplacedText(b) == b.type = 0 /\ b.bbox = None

\* The page without its text blocks that have no bbox
WithoutUnplacedText(p) ==
    [p EXCEPT !.blocks = SelectSeq(p.blocks, LAMBDA b : ~IsUnplacedText(b))]

\* C13: a text block without a bounding box takes no part in the layout
\* computation: the layout type of the analysed page is the layout type of
\* the same page with every such block removed.
C13_UnplacedTextIsExcluded ==
    fitz_page # None =>
        meta.layout_type = detect_layout_type(WithoutUnplacedText(fitz_page))

(***************************************************************************)
(*                    IR BUILDER: SOURCE OF A BLOCK                        *)
(***************************************************************************)
\* C14: a block of the built IR has source "ocr" exactly when it was converted
\* from an OCR block; a block converted from a text, image, drawing or table
\* block has source "native".
C14_SourceTellsOrigin ==
    Built =>
        LET source_blocks == ConversionOrder(extracted)
        IN  \A i \in DOMAIN ir.blocks :
                /\ ir.blocks[i].source \in {"native", "ocr"}
                /\ ir.blocks[i].source = "ocr" <=> source_blocks[i].kind = "OCRBlock"

(***************************************************************************)
(*               STRUCTURE ANALYZER: WHAT analyze MAY CHANGE               *)
(***************************************************************************)
\* C15: analyze changes only the type and the metadata of blocks: the IR has
\* the same blocks in the same order, each with the id, content and bbox it
\* had, and the same relations in the same order.
C15_AnalyzeKeepsBlocksAndRelations ==
    [][ir_pc = "built" =>
          /\ Len(ir'.blocks) = Len(ir.blocks)
          /\ \A i \in DOMAIN ir.blocks :
                /\ ir'.blocks[i].id = ir.blocks[i].id
                /\ ir'.blocks[i].content = ir.blocks[i].content
                /\ ir'.blocks[i].bbox = ir.blocks[i].bbox
          /\ ir'.relations = ir.relations]_vars

\* analyze has made a heading and a list item, and there are relations
C15_Witness ==
    /\ ir_pc = "analyzed"
    /\ ir.relations # <<>>
    /\ \E i, j \in DOMAIN ir.blocks :
          /\ Get(ir.blocks[i].metadata, "original_type", "") = "heading"
          /\ Get(ir.blocks[j].metadata, "original_type", "") = "list_item"

(***************************************************************************)
(*              STRUCTURE ANALYZER: BLOCKS WITHOUT A FONT SIZE             *)
(***************************************************************************)
\* A block whose metadata has no font size: no key, or the key with None
IsFontless(b) == Get(b.metadata, "font_size", NoneNum) = NoneNum

\* C16: heading detection completes on an IR with text blocks that have no
\* font size, and such a block is not made a heading by its font size: when
\* it is neither bold nor matches a heading pattern it keeps its type.
C16_FontlessBlockIsNeutral ==
    /\ ir_pc # "raised"
    /\ ir_pc = "analyzed" =>
          \A i \in DOMAIN ir.blocks :
              ( /\ IsFontless(ir.blocks[i])
                /\ ~Get(ir.blocks[i].metadata, "is_bold", FALSE)
                /\ ~MatchesHeadingPattern(strip(ir.blocks[i].content)) )
              => ir.blocks[i].type # "heading"

(***************************************************************************)
(*                    STRUCTURE ANALYZER: LIST RUNS                        *)
(***************************************************************************)
IsList(b) == b.type = "list"

\* Blocks i..j of the analyzed IR are list items without a gap
OneRun(i, j) == \A k \in i..j : IsList(ir.blocks[k])

\* C17: after list detection the List blocks are the text and paragraph
\* blocks that start with a list marker, and two of them have the same
\* list_id exactly when every block between them is a List block too: a
\* block that is no list item ends the run and the next run has another id.
C17_ListIdNamesTheRun ==
    ir_pc = "analyzed" =>
        /\ \A i \in DOMAIN ir.blocks :
              /\ IsList(ir.blocks[i]) =>
                    /\ FirstListPattern(strip(ir.blocks[i].content)) > 0
                    /\ "list_id" \in DOMAIN ir.blocks[i].metadata
              /\ ir.blocks[i].type \in {"text", "paragraph"} =>
                    FirstListPattern(strip(ir.blocks[i].content)) = 0
        /\ \A i, j \in DOMAIN ir.blocks :
              (i < j /\ IsList(ir.blocks[i]) /\ IsList(ir.blocks[j])) =>
                  (ir.blocks[i].metadata.list_id = ir.blocks[j].metadata.list_id
                      <=> OneRun(i, j))

\* A run of two list items, a block that is none, and a list item after it
C17_Witness ==
    /\ ir_pc = "analyzed"
    /\ Len(ir.blocks) = 4
    /\ OneRun(1, 2)
    /\ ~IsList(ir.blocks[3])
    /\ IsList(ir.blocks[4])
    /\ ir.blocks[1].metadata.list_id = ir.blocks[2].metadata.list_id
    /\ ir.blocks[4].metadata.list_id # ir.blocks[1].metadata.list_id

\* The text blocks of the analysed page
TextBlocksOfPage == SelectSeq(fitz_page.blocks, LAMBDA b : b.type = 0)

\* Text block i comes before text block j when the blocks are sorted by x0
SortsBefore(i, j) ==
    LET t == TextBlocksOfPage
    IN  t[i].bbox.x0 < t[j].bbox.x0 \/ (t[i].bbox.x0 = t[j].bbox.x0 /\ i < j)

\* The text blocks that open a column: no block sorted before them reaches
\* to within the gap of their left edge
ColumnOpeners ==
    {j \in DOMAIN TextBlocksOfPage :
        \A i \in DOMAIN TextBlocksOfPage :
            SortsBefore(i, j) =>
                TextBlocksOfPage[i].bbox.x1 + MULTI_COLUMN_GAP < TextBlocksOfPage[j].bbox.x0}

\* C18: on a page whose text blocks all have a bbox the layout type follows
\* the number of columns: no block at all gives unknown, fewer than two text
\* blocks single_column, one column single_column, two multi_column, three or
\* more newspaper with more than 10 text blocks and complex otherwise.
C18_LayoutFollowsColumnCount ==
    (fitz_page # None /\ \A i \in DOMAIN fitz_page.blocks : ~IsUnplacedText(fitz_page.blocks[i]))
    => LET n == Len(TextBlocksOfPage)
           k == Cardinality(ColumnOpeners)
       IN  meta.layout_type =
               IF fitz_page.blocks = <<>> THEN "unknown"
               ELSE IF n <= 1 THEN "single_column"
               ELSE IF k = 1 THEN "single_column"
               ELSE IF k = 2 THEN "multi_column"
               ELSE IF n > 10 THEN "newspaper"
               ELSE "complex"

\* A page of three columns and eleven text blocks, each with a bbox
C18_Witness ==
    /\ fitz_page # None
    /\ \A i \in DOMAIN fitz_page.blocks : ~IsUnplacedText(fitz_page.blocks[i])
    /\ Len(TextBlocksOfPage) = 11
    /\ Cardinality(ColumnOpeners) = 3
    /\ meta.layout_type = "newspaper"

(***************************************************************************)
(*                        A PAGE WITHOUT BLOCKS                            *)
(***************************************************************************)
\* The analysed page has no text or image block, no image and no drawing
AnalysedPageIsEmpty ==
    /\ fitz_page # None
    /\ fitz_page.blocks = <<>>
    /\ fitz_page.images = <<>>
    /\ fitz_page.drawings = <<>>

\* The page data of an extracted page hold no block
ExtractedPageIsEmpty(page_data) ==
    /\ page_data.text_blocks = <<>>
    /\ page_data.image_blocks = <<>>
    /\ page_data.drawing_blocks = <<>>
    /\ page_data.table_blocks = <<>>
    /\ page_data.ocr_blocks = <<>>

\* C19: a page without blocks is given the metrics has_text_layer = False,
\* text_density = 0, layout_type = unknown and bbox_coverage = 0, and an
\* extracted page without blocks has no block in the built IR, so that every
\* end of a relation is a block of another page.
C19_EmptyPageIsWellDefined ==
    /\ AnalysedPageIsEmpty =>
          /\ meta.has_text_layer = FALSE
          /\ meta.text_density = 0
          /\ meta.layout_type = "unknown"
          /\ meta.bbox_coverage = 0
    /\ Built =>
          \A n \in DOMAIN extracted :
              ExtractedPageIsEmpty(extracted[n]) =>
                  /\ \A i \in DOMAIN ir.blocks : ir.blocks[i].page # n
                  /\ \A r \in DOMAIN ir.relations :
                        \E i, j \in DOMAIN ir.blocks :
                            /\ ir.blocks[i].id = ir.relations[r].from_id
                            /\ ir.blocks[j].id = ir.relations[r].to_id
                            /\ ir.blocks[i].page # n
                            /\ ir.blocks[j].page # n

\* The page analysed last had no blocks, and the IR is built from a page
\* without blocks and a page with two
C19_Witness ==
    /\ AnalysedPageIsEmpty
    /\ Built
    /\ Len(extracted) = 2
    /\ ExtractedPageIsEmpty(extracted[1])
    /\ Len(ir.blocks) = 2
    /\ Len(ir.relations) = 1

(***************************************************************************)
(*                  STRUCTURE PRESERVER: VECTOR DRAWINGS                   *)
(***************************************************************************)
IsDrawing(block) == block.kind = "DrawingBlock"

TierChosen == route # None /\ route.ocr_mode # NoneStr

\* C21: with accuracy priority the router returns neither Tiny nor Small; a
\* page that is sent to recognition with a density of at most MODE_SMALL_MAX,
\* which selects Tiny or Small otherwise, gets Base (Gundam on a newspaper
\* layout).
C21_NoTierBelowBase ==
    (TierChosen /\ prioritize_accuracy) =>
        /\ route.ocr_mode \notin {"Tiny", "Small"}
        /\ meta.text_density <= 1000 =>
              route.ocr_mode = IF meta.layout_type = "newspaper" THEN "Gundam" ELSE "Base"

\* With accuracy priority a page with a density of the Tiny bucket got Base
C21_Witness ==
    /\ TierChosen
    /\ prioritize_accuracy
    /\ meta.text_density <= 500
    /\ meta.layout_type # "newspaper"
    /\ route.ocr_mode = "Base"

\* The order Tiny < Small < Base < Large < Gundam
TierRank(mode) ==
    CASE mode = "Tiny" -> 1
      [] mode = "Small" -> 2
      [] mode = "Base" -> 3
      [] mode = "Large" -> 4
      [] mode = "Gundam" -> 5

\* C22: the tier is monotone in the density: with the layout type and the
\* accuracy flag of the routed page, no smaller density selects a higher tier
\* than the page got and no greater density a lower one.
C22_TierIsMonotone ==
    TierChosen =>
        \A d \in Densities :
            LET other == TierRank(select_ocr_mode(d, meta.layout_type))
                this == TierRank(route.ocr_mode)
            IN  /\ d <= meta.text_density => other <= this
                /\ meta.text_density <= d => this <= other

\* Without accuracy priority a page of the Large bucket got Large
C22_Witness ==
    /\ TierChosen
    /\ ~prioritize_accuracy
    /\ meta.text_density = 5000
    /\ meta.layout_type = "complex"
    /\ route.ocr_mode = "Large"

(***************************************************************************)
(*                 STRUCTURE ANALYZER: HEADING LEVELS                      *)
(***************************************************************************)
\* The text blocks the analyzed page was extracted with, in IR order
SourceTexts == extracted[1].text_blocks

\* Sum and count of the sizes of the source blocks that enter the mean
SourceMean ==
    LET sized == SelectSeq(SourceTexts,
                           LAMBDA b : b.type = "paragraph" /\ b.font_size # NoneNum)
    IN  [sum |-> SeqSum([i \in DOMAIN sized |-> sized[i].font_size]),
         count |-> Len(sized)]

\* font_size >= mean * (tenths / 10)
AtLeast(font_size, tenths) ==
    font_size * SourceMean.count * 10 >= SourceMean.sum * tenths

\* An analyzed page of sized blocks that has a mean
SizedPageAnalyzed ==
    /\ ir_pc = "analyzed"
    /\ Len(ir.blocks) = Len(SourceTexts)
    /\ SourceMean.count > 0

\* C23: heuristic (b) with inclusive bounds: a block above the threshold
\* (1.2 times the mean) whose size is at least 1.5 times the mean has level
\* 1, one of at least 1.3 times and below 1.5 times has level 2, any other
\* has level 3.
C23_LevelBoundsAreInclusive ==
    SizedPageAnalyzed =>
        \A i \in DOMAIN ir.blocks :
            LET f == SourceTexts[i].font_size
            IN  (f * SourceMean.count * 10 > SourceMean.sum * 12) =>
                    /\ IsHeading(ir.blocks[i])
                    /\ LevelOf(ir.blocks[i]) =
                           IF AtLeast(f, 15) THEN 1
                           ELSE IF AtLeast(f, 13) THEN 2
                           ELSE 3

\* font_size > large_font_threshold for a block of the analyzed page; without
\* a sized paragraph the mean is the default 12
AboveThreshold(font_size) ==
    IF SourceMean.count = 0
    THEN font_size * 10 > 12 * 12
    ELSE font_size * SourceMean.count * 10 > SourceMean.sum * 12

\* Source block i is promoted by heuristic (c) and by no other
BoldAlone(i) ==
    /\ SourceTexts[i].is_bold
    /\ Len(strip(SourceTexts[i].text)) < 100
    /\ ~MatchesHeadingPattern(strip(SourceTexts[i].text))
    /\ ~AboveThreshold(SourceTexts[i].font_size)

\* C24: a block that only heuristic (c) promotes is a heading of a level
\* other than 1, and a bold block that (a) or (b) gave level 1 keeps level 1.
C24_BoldAloneIsNotLevelOne ==
    (ir_pc = "analyzed" /\ Len(ir.blocks) = Len(SourceTexts)) =>
        \A i \in DOMAIN ir.blocks :
            /\ BoldAlone(i) =>
                   IsHeading(ir.blocks[i]) /\ LevelOf(ir.blocks[i]) # 1
            /\ ( /\ SourceTexts[i].is_bold
                 /\ ~BoldAlone(i)
                 /\ ~MatchesThreeNumbers(strip(SourceTexts[i].text))
                 /\ AfterNumberDotNumber(strip(SourceTexts[i].text)) = 0
                 /\ MatchesHeadingPattern(strip(SourceTexts[i].text)) )
                => IsHeading(ir.blocks[i]) /\ LevelOf(ir.blocks[i]) = 1

(***************************************************************************)
(*                STRUCTURE ANALYZER: PARENT HEADINGS                      *)
(***************************************************************************)
\* The positions of the headings before block i of the analyzed IR
HeadingsBefore(i) == { j \in 1..(i - 1) : IsHeading(ir.blocks[j]) }

\* The greatest member of a non-empty set of positions
Latest(S) == CHOOSE j \in S : \A k \in S : k <= j

\* C25: after hierarchy building a non-heading block that follows a heading
\* has parent_heading equal to the id of the most recent heading before it,
\* and a non-heading block before every heading has no parent_heading.
C25_ParentIsLatestHeading ==
    ir_pc = "analyzed" =>
        \A i \in DOMAIN ir.blocks :
            ~IsHeading(ir.blocks[i]) =>
                IF HeadingsBefore(i) # {}
                THEN /\ "parent_heading" \in DOMAIN ir.blocks[i].metadata
                     /\ ir.blocks[i].metadata.parent_heading =
                            ir.blocks[Latest(HeadingsBefore(i))].id
                ELSE "parent_heading" \notin DOMAIN ir.blocks[i].metadata

\* A paragraph after a level 1 heading and a level 2 heading under it, and a
\* paragraph before both
C25_Witness ==
    /\ ir_pc = "analyzed"
    /\ Len(ir.blocks) = 4
    /\ ~IsHeading(ir.blocks[1])
    /\ IsHeading(ir.blocks[2]) /\ LevelOf(ir.blocks[2]) = 1
    /\ IsHeading(ir.blocks[3]) /\ LevelOf(ir.blocks[3]) = 2
    /\ ~IsHeading(ir.blocks[4])
    /\ ir.blocks[4].metadata.parent_heading = ir.blocks[3].id
    /\ "parent_heading" \notin DOMAIN ir.blocks[1].metadata

(***************************************************************************)
(*               STRUCTURE PRESERVER: RECOGNITION CALLS                    *)
(***************************************************************************)
\* The positions of the input whose block is a RasterImage with needs_ocr
FlaggedPositions ==
    { i \in DOMAIN sp_blocks :
         sp_blocks[i].kind = "ImageBlock" /\ sp_blocks[i].needs_ocr }

\* The positions the for loop has begun
Begun == { i \in DOMAIN sp_blocks : i < sp_i \/ (i = sp_i /\ sp_pc = "call") }

\* The log entries that are calls, as positions of the log
CallEntries == { k \in DOMAIN sp_log : sp_log[k].ev = "call" }

SeenSinceReset == FlattenSeq(sp_history)

\* How many of them are RasterImages with needs_ocr
FlaggedSeen ==
    Cardinality({ i \in DOMAIN SeenSinceReset :
                     /\ SeenSinceReset[i].kind = "ImageBlock"
                     /\ SeenSinceReset[i].needs_ocr })

\* C27: between calls, total_images is the number of flagged RasterImages
\* seen since the last reset and equals ocr_processed + ocr_errors, while
\* total_drawings and ocr_skipped are 0; unflagged images, drawings and text
\* are not counted.
C27_CountersAddUp ==
    sp_pc \in {"idle", "done"} =>
        /\ stats.total_images = FlaggedSeen
        /\ stats.total_images = stats.ocr_processed + stats.ocr_errors
        /\ stats.total_drawings = 0
        /\ stats.ocr_skipped = 0

\* Two calls since the last reset, with a flagged and an unflagged image:
\* one image counted, and its recognition failed
C27_Witness ==
    /\ sp_pc = "idle"
    /\ ocr_client
    /\ Len(sp_history) = 2
    /\ \E i \in DOMAIN SeenSinceReset :
          SeenSinceReset[i].kind = "ImageBlock" /\ ~SeenSinceReset[i].needs_ocr
    /\ FlaggedSeen = 1
    /\ stats.total_images = 1
    /\ stats.ocr_errors = 1

(***************************************************************************)
(*                  PIPELINE: THE TWO ENTRY POINTS                         *)
(***************************************************************************)
\* Both entry points have called build_ir on the document
BothHanded == pr_builds = 1 /\ ir_pc = "handed"

\* C28: for the same document and configuration process and process_to_ir
\* hand the same per-page block lists to build_ir, also when a page has
\* vector drawings, no raster image, and recognition is enabled.
C28_EntryPointsAgree ==
    BothHanded => pr_data = extracted

(***************************************************************************)
(*                  PIPELINE: A PAGE THAT FAILS                            *)
(***************************************************************************)
\* Page k of the document fails in process: its extraction raises, or the
\* Structure Preserver is applied and meets a kept block without bbox
FailingPage(k) ==
    \/ document[k].raises
    \/ /\ ocr_client
       /\ \E i \in DOMAIN document[k].blocks :
             document[k].blocks[i].kind \in {"ImageBlock", "DrawingBlock"}
       /\ \E i \in DOMAIN document[k].blocks :
             /\ document[k].blocks[i].kind # "DrawingBlock"
             /\ document[k].blocks[i].bbox = None

\* The blocks of one entry of extracted_data
BlocksOfEntry(e) ==
    e.text_blocks \o e.image_blocks \o e.drawing_blocks \o e.table_blocks
    \o e.ocr_blocks

\* C29: in process a failing page does not abort the document: every page
\* read so far has exactly one entry, in page order; a failing page has the
\* empty entry and exactly one recorded error, another page has no error;
\* build_ir is called once, and only when every page has its entry.
C29_FailingPageIsAbsorbed ==
    /\ Len(pr_data) <= Len(document)
    /\ pr_builds <= 1
    /\ pr_builds = 1 => Len(pr_data) = Len(document)
    /\ \A k \in DOMAIN pr_data :
          LET recorded == { j \in DOMAIN pr_errors : pr_errors[j].page = k }
          IN  IF FailingPage(k)
              THEN /\ pr_data[k] = EmptyPageData
                   /\ Cardinality(recorded) = 1
              ELSE /\ recorded = {}
                   /\ \A i \in DOMAIN BlocksOfEntry(pr_data[k]) :
                         BlocksOfEntry(pr_data[k])[i].page_num = k - 1
                   /\ Len(BlocksOfEntry(pr_data[k])) =
                         Len(SelectSeq(document[k].blocks,
                                       LAMBDA b : ~(process_applies_preserver(
                                                      split_blocks_by_type(document[k].blocks))
                                                    /\ b.kind = "DrawingBlock")))
    /\ \A j \in DOMAIN pr_errors : pr_errors[j].page \in DOMAIN pr_data

\* The first page failed in the Structure Preserver, the second page was
\* read after it, and build_ir got both entries
C29_Witness ==
    /\ pr_builds = 1
    /\ Len(document) = 2
    /\ ~document[1].raises /\ FailingPage(1)
    /\ ~FailingPage(2)
    /\ pr_data[1] = EmptyPageData
    /\ pr_data[2].text_blocks # <<>>
    /\ pr_errors = << [page |-> 1, error |-> "process_structure"] >>

(***************************************************************************)
(*                    OCR CLIENT: ocr_image ENDS                           *)
(***************************************************************************)
\* An attempt after which the loop goes on: a timeout, a connection error,
\* an HTTP 5xx, an unexpected exception
FailedRetryably(a) ==
    \/ a.kind \in {"Timeout", "ConnectionError", "Exception"}
    \/ a.kind = "HTTPError" /\ a.status_code >= 500

\* An attempt answered with an HTTP 4xx
ClientError(a) ==
    a.kind = "HTTPError" /\ a.status_code >= 400 /\ a.status_code < 500

OcrImageEnded == oc_pc \in {"returned", "raised"}

\* In every state of a call: no more than max_retries attempts; every attempt
\* but the last one failed retryably; a 4xx ended the call with RuntimeError;
\* a result comes from a successful attempt only; RuntimeError otherwise
\* means all max_retries attempts were used up.
AttemptsInBounds ==
    LET n == Len(oc_attempts)
    IN  /\ n <= max_retries
        /\ \A k \in 1..(n - 1) : FailedRetryably(oc_attempts[k])
        /\ (n > 0 /\ ClientError(oc_attempts[n])) =>
               oc_pc = "raised" /\ "message" \in DOMAIN oc_result
        /\ oc_pc = "returned" =>
               /\ n > 0
               /\ oc_attempts[n].kind = "ok"
               /\ "markdown" \in DOMAIN oc_result
        /\ oc_pc = "raised" =>
               /\ "message" \in DOMAIN oc_result
               /\ \/ n > 0 /\ ClientError(oc_attempts[n])
                  \/ n = max_retries /\ \A k \in 1..n : FailedRetryably(oc_attempts[k])
        /\ oc_pc = "loop" => \A k \in 1..n : FailedRetryably(oc_attempts[k])

\* C30: ocr_image always terminates, after at most max_retries HTTP
\* attempts: a timeout, a connection error, an HTTP 5xx or an unexpected
\* exception leads to the next attempt, an HTTP 4xx ends the call at once
\* with RuntimeError, used-up attempts end it with RuntimeError, and a result
\* is returned only from an attempt that succeeded.
C30_OcrImageTerminates ==
    /\ []AttemptsInBounds
    /\ (oc_pc = "loop") ~> OcrImageEnded

\* The third of three attempts succeeded after a timeout and an HTTP 503
C30_Witness ==
    /\ oc_pc = "returned"
    /\ max_retries = 3
    /\ Len(oc_attempts) = 3
    /\ oc_attempts[1].kind = "Timeout"
    /\ oc_attempts[2] = [kind |-> "HTTPError", status_code |-> 503]
    /\ oc_result.blocks # <<>>
====
